---- MODULE Spec2Model ----
(***************************************************************************)
(* Coverage range normalizer (packages/core/scripts/normalize-v8-coverage) *)
(* modelled as a state machine.                                            *)
(*                                                                         *)
(* Two specifications share the pure operators below:                      *)
(*   RangeSpec  one generated file with its source map, and normalizeRange *)
(*              applied to one coverage range, then applied again to its   *)
(*              own output;                                                *)
(*   Spec       one pass of normalizeCoverageDir over a coverage directory *)
(*              (files, entries, function blocks, ranges), the cache of    *)
(*              source-map contexts and the consumers' lifetime.           *)
(***************************************************************************)
EXTENDS Integers, Sequences, FiniteSets, TLC

(***************************************************************************)
(* Bounds of the model.                                                    *)
(***************************************************************************)
\* length of a generated source text
MaxLen == 3
\* number of segments of a source map
MaxSegs == 2

(***************************************************************************)
(* Values.                                                                 *)
(***************************************************************************)
\* the `null` source of a segment without original position, and of a failed lookup
NoSource == "null"
\* SourceMapConsumer.GREATEST_LOWER_BOUND and SourceMapConsumer.LEAST_UPPER_BOUND
GREATEST_LOWER_BOUND == 1
LEAST_UPPER_BOUND == 2
\* the scan budget of normalizeV8Coverage without V8_COVERAGE_SCAN_LIMIT
DefaultMaxScan == 20000
\* Number.MAX_SAFE_INTEGER, the column of the end-of-line needle; any number above
\* every original column behaves the same, and this is the largest integer TLC holds
MAX_SAFE_INTEGER == 2147483647

Min2(a, b) == IF a <= b THEN a ELSE b
Max2(a, b) == IF a >= b THEN a ELSE b

(***************************************************************************)
(* Generated text and its line table.                                      *)
(***************************************************************************)
\* a generated source is a sequence of characters; only "\n" matters
NL == "\n"
CH == "c"

RECURSIVE lineStartsFrom(_, _)
lineStartsFrom(source, i) ==
    \* the loop of buildLineStarts from index i (0-based) on
    IF i >= Len(source) THEN << >>
    ELSE IF source[i + 1] = NL
         THEN <<i + 1>> \o lineStartsFrom(source, i + 1)
         ELSE lineStartsFrom(source, i + 1)

\* starts.push(i) instead of starts.push(i + 1): a line starts at its newline
buildLineStarts_atNewline(source) ==
    <<0>> \o [k \in 1..Len(lineStartsFrom(source, 0)) |->
                lineStartsFrom(source, 0)[k] - 1]

buildLineStarts(source) == <<0>> \o lineStartsFrom(source, 0)

\* lineStarts[k] of the code (0-based) is lineStarts[k + 1] here
RECURSIVE offsetToLineColFrom(_, _, _, _)

\* one round of the binary search, mid = Math.floor((low + high) / 2)
offsetToLineColAt(lineStarts, offset, low, high, mid) ==
    IF lineStarts[mid + 1] <= offset
       /\ (mid + 1 < Len(lineStarts) => offset < lineStarts[mid + 2])
    THEN [line |-> mid + 1, column |-> offset - lineStarts[mid + 1]]
    ELSE IF lineStarts[mid + 1] > offset
         THEN offsetToLineColFrom(lineStarts, offset, low, mid - 1)
         ELSE offsetToLineColFrom(lineStarts, offset, mid + 1, high)

offsetToLineColFrom(lineStarts, offset, low, high) ==
    IF low > high THEN [line |-> 1, column |-> 0]
    ELSE offsetToLineColAt(lineStarts, offset, low, high, (low + high) \div 2)

offsetToLineCol(lineStarts, offset) ==
    offsetToLineColFrom(lineStarts, offset, 0, Len(lineStarts) - 1)

\* the column clamped to one past the end of the line
clampColumn_pastLineEnd(lineStart, lineEnd, column) ==
    lineStart + Max2(0, Min2(column, lineEnd - lineStart + 1))

\* lineStart + clampedColumn
clampColumn(lineStart, lineEnd, column) ==
    lineStart + Max2(0, Min2(column, lineEnd - lineStart))

\* lineIndex = Math.max(0, line - 1)
lineColToOffsetAt(lineStarts, lineIndex, column, sourceLength) ==
    clampColumn(IF lineIndex < Len(lineStarts) THEN lineStarts[lineIndex + 1] ELSE 0,
                IF lineIndex + 1 < Len(lineStarts)
                THEN lineStarts[lineIndex + 2] - 1
                ELSE sourceLength,
                column)

lineColToOffset(lineStarts, line, column, sourceLength) ==
    lineColToOffsetAt(lineStarts, Max2(0, line - 1), column, sourceLength)

(***************************************************************************)
(* The source-map consumer.  A consumer is a record                        *)
(*   [segs : set of segments, tie : "low" | "high"]                        *)
(* and a segment is [gl, gc, src, ol, oc]: generated line (1-based) and    *)
(* column, original source (NoSource for a segment without one), original  *)
(* line (1-based) and column.  No two segments share a generated position. *)
(* `tie` is the library's choice among segments of one source with the     *)
(* same original position (the lowest or the highest generated position):  *)
(* the library's binary search fixes it, the caller cannot.                *)
(***************************************************************************)
NullPosition == [source |-> NoSource, line |-> 0, column |-> 0]
NullGenerated == [line |-> 0, column |-> 0]

GenLeq(l1, c1, l2, c2) == l1 < l2 \/ (l1 = l2 /\ c1 <= c2)

\* the segments at or before (lower bound) or at or after (upper bound) a
\* generated position
generatedCandidates(consumer, line, column, bias) ==
    IF bias = GREATEST_LOWER_BOUND
    THEN {m \in consumer.segs : GenLeq(m.gl, m.gc, line, column)}
    ELSE {m \in consumer.segs : GenLeq(line, column, m.gl, m.gc)}

\* the candidate nearest to the needle in generated order (a set of at most one)
nearestGenerated(cands, bias) ==
    IF bias = GREATEST_LOWER_BOUND
    THEN {x \in cands : \A y \in cands : GenLeq(y.gl, y.gc, x.gl, x.gc)}
    ELSE {x \in cands : \A y \in cands : GenLeq(x.gl, x.gc, y.gl, y.gc)}

\* the original position of the found segment, if it is on the needle's line
\* and has one
originalOf(found, line) ==
    IF \E m \in found : m.gl = line /\ m.src # NoSource
    THEN CHOOSE pos \in {[source |-> m.src, line |-> m.ol, column |-> m.oc] :
                            m \in found} : TRUE
    ELSE NullPosition

\* consumer.originalPositionFor({line, column, bias}): the nearest segment in the
\* direction of the bias over the whole file, kept only if it is on the needle's line
originalPositionFor(consumer, line, column, bias) ==
    originalOf(nearestGenerated(generatedCandidates(consumer, line, column, bias),
                                bias),
               line)

\* the segments of a source at or before (lower bound) or at or after (upper
\* bound) an original position
originalCandidates(consumer, source, line, column, bias) ==
    IF bias = GREATEST_LOWER_BOUND
    THEN {m \in consumer.segs : m.src = source /\ GenLeq(m.ol, m.oc, line, column)}
    ELSE {m \in consumer.segs : m.src = source /\ GenLeq(line, column, m.ol, m.oc)}

\* the candidates nearest to the needle in original order
nearestOriginal(cands, bias) ==
    IF bias = GREATEST_LOWER_BOUND
    THEN {x \in cands : \A y \in cands : GenLeq(y.ol, y.oc, x.ol, x.oc)}
    ELSE {x \in cands : \A y \in cands : GenLeq(x.ol, x.oc, y.ol, y.oc)}

\* the generated position of the one the consumer picks among them
generatedOf(best, tie) ==
    IF best = {} THEN NullGenerated
    ELSE CHOOSE pos \in {[line |-> x.gl, column |-> x.gc] :
            x \in {x \in best :
                     \A y \in best : IF tie = "low"
                                     THEN GenLeq(x.gl, x.gc, y.gl, y.gc)
                                     ELSE GenLeq(y.gl, y.gc, x.gl, x.gc)}} : TRUE

\* consumer.generatedPositionFor({source, line, column, bias}): the nearest segment
\* of that source in original order, in the direction of the bias
generatedPositionFor(consumer, source, line, column, bias) ==
    IF source = NoSource THEN NullGenerated
    ELSE generatedOf(nearestOriginal(originalCandidates(consumer, source, line,
                                                        column, bias), bias),
                     consumer.tie)

mapOriginalPosition(consumer, line, column, bias) ==
    originalPositionFor(consumer, line, column, bias)

(***************************************************************************)
(* findMappedStart and findMappedEnd.  ctx is a SourceContext              *)
(*   [lineStarts, sourceLength, consumer]                                  *)
(* and options is [maxScan].  A result is                                  *)
(*   [found, mapped, offset, probes]                                       *)
(* where found = FALSE stands for the code's null, and probes is the set   *)
(* of generated offsets whose position was handed to the consumer (kept    *)
(* for the statements about the scan window; the code does not store it).  *)
(***************************************************************************)
NoMapping(probes) ==
    [found |-> FALSE, mapped |-> NullPosition, offset |-> 0, probes |-> probes]

Mapping(mapped, off, probes) ==
    [found |-> TRUE, mapped |-> mapped, offset |-> off, probes |-> probes]

\* the budget without the Math.min against options.maxScan
scanBudget_ignoresOption(startOffset, endOffset, options) ==
    Max2(0, endOffset - startOffset)

\* Math.min(options.maxScan, Math.max(0, endOffset - startOffset))
scanBudget(startOffset, endOffset, options) ==
    Min2(options.maxScan, Max2(0, endOffset - startOffset))

\* `if (!mapped.source) mapped = <the lookup with the other bias>`
orWithoutSource(first, second) ==
    IF first.source = NoSource THEN second ELSE first

\* the biases of findMappedStart in the order of findMappedEnd
lookupStartAt_lowerFirst(consumer, pos) ==
    orWithoutSource(
        mapOriginalPosition(consumer, pos.line, pos.column, GREATEST_LOWER_BOUND),
        mapOriginalPosition(consumer, pos.line, pos.column, LEAST_UPPER_BOUND))

\* upper-bound bias first, lower-bound bias when it yields no source
lookupStartAt(consumer, pos) ==
    orWithoutSource(
        mapOriginalPosition(consumer, pos.line, pos.column, LEAST_UPPER_BOUND),
        mapOriginalPosition(consumer, pos.line, pos.column, GREATEST_LOWER_BOUND))

lookupStart(ctx, off) ==
    lookupStartAt(ctx.consumer, offsetToLineCol(ctx.lineStarts, off))

\* `if (!mapped.source || (targetSource && mapped.source !== targetSource))
\*    mapped = <the lookup with the other bias>`
\* (targetSource = NoSource stands for `undefined`)
orOffTarget(first, second, targetSource) ==
    IF first.source = NoSource
       \/ (targetSource # NoSource /\ first.source # targetSource)
    THEN second
    ELSE first

\* lower-bound bias first, upper-bound bias when it yields no source or another
\* source than the target
lookupEndAt(consumer, pos, targetSource) ==
    orOffTarget(
        mapOriginalPosition(consumer, pos.line, pos.column, GREATEST_LOWER_BOUND),
        mapOriginalPosition(consumer, pos.line, pos.column, LEAST_UPPER_BOUND),
        targetSource)

lookupEnd(ctx, off, targetSource) ==
    lookupEndAt(ctx.consumer, offsetToLineCol(ctx.lineStarts, off), targetSource)

\* line 241 and 269 without the comparison against targetSource
acceptEnd_anySource(mapped, targetSource) ==
    mapped.source # NoSource

\* if (mapped.source && (!targetSource || mapped.source === targetSource))
acceptEnd(mapped, targetSource) ==
    mapped.source # NoSource
    /\ (targetSource = NoSource \/ mapped.source = targetSource)

\* the forward scan runs to the end of the range whatever the budget is
startScanLimit_wholeRange(startOffset, endOffset, options) ==
    endOffset

\* const limit = Math.min(endOffset, startOffset + maxScan)
startScanLimit(startOffset, endOffset, options) ==
    Min2(endOffset, startOffset + scanBudget(startOffset, endOffset, options))

\* const limit = Math.max(startOffset, endOffset - maxScan)
endScanLimit(startOffset, endOffset, options) ==
    Max2(startOffset, endOffset - scanBudget(startOffset, endOffset, options))

RECURSIVE scanForward(_, _, _, _)

\* the body of the forward loop at offset off, with what the lookups gave
scanForwardAt(ctx, off, limit, probes, mapped) ==
    IF mapped.source # NoSource
    THEN Mapping(mapped, off, probes \cup {off})
    ELSE scanForward(ctx, off + 1, limit, probes \cup {off})

\* for (let off = ...; off <= limit; off++)
scanForward(ctx, off, limit, probes) ==
    IF off > limit THEN NoMapping(probes)
    ELSE scanForwardAt(ctx, off, limit, probes, lookupStart(ctx, off))

RECURSIVE scanBackward(_, _, _, _, _)

\* the body of the backward loop at offset off, with what the lookups gave
scanBackwardAt(ctx, off, limit, targetSource, probes, mapped) ==
    IF acceptEnd(mapped, targetSource)
    THEN Mapping(mapped, off, probes \cup {off})
    ELSE scanBackward(ctx, off - 1, limit, targetSource, probes \cup {off})

\* for (let off = ...; off >= limit; off--)
scanBackward(ctx, off, limit, targetSource, probes) ==
    IF off < limit THEN NoMapping(probes)
    ELSE scanBackwardAt(ctx, off, limit, targetSource, probes,
                        lookupEnd(ctx, off, targetSource))

\* the direct lookup gave `mapped`: return it, or scan forward
findMappedStartFrom(ctx, startOffset, endOffset, options, mapped) ==
    IF mapped.source # NoSource
    THEN Mapping(mapped, startOffset, {startOffset})
    ELSE scanForward(ctx, startOffset + 1,
                     startScanLimit(startOffset, endOffset, options),
                     {startOffset})

findMappedStart(ctx, startOffset, endOffset, options) ==
    findMappedStartFrom(ctx, startOffset, endOffset, options,
                        lookupStart(ctx, startOffset))

\* the direct lookup gave `mapped`: return it, or scan backward
findMappedEndFrom(ctx, startOffset, endOffset, options, targetSource, mapped) ==
    IF acceptEnd(mapped, targetSource)
    THEN Mapping(mapped, endOffset, {endOffset})
    ELSE scanBackward(ctx, endOffset - 1,
                      endScanLimit(startOffset, endOffset, options),
                      targetSource, {endOffset})

findMappedEnd(ctx, startOffset, endOffset, options, targetSource) ==
    findMappedEndFrom(ctx, startOffset, endOffset, options, targetSource,
                      lookupEnd(ctx, endOffset, targetSource))

(***************************************************************************)
(* normalizeRange.  A range is [startOffset, endOffset, count]; the result *)
(* is [range, changed, ...]: the range as the call leaves it and the value *)
(* the call returns, with what the call found on the way (startMapping,    *)
(* endMapping, the offsets before the write-back) for the statements.      *)
(***************************************************************************)
NotReached == NoMapping({})

\* a range that is given up on is emptied instead of kept
Unchanged_emptied(range, startMapping, endMapping) ==
    [range |-> [range EXCEPT !.endOffset = range.startOffset], changed |-> FALSE,
     startMapping |-> startMapping, endMapping |-> endMapping,
     startOffset |-> range.startOffset, endOffset |-> range.startOffset]

\* `return false` before the write-back: the range stays as it is
Unchanged(range, startMapping, endMapping) ==
    [range |-> range, changed |-> FALSE,
     startMapping |-> startMapping, endMapping |-> endMapping,
     startOffset |-> range.startOffset, endOffset |-> range.endOffset]

\* normalizeRange without its first line
isDegenerate_never(range) == FALSE

\* if (range.endOffset <= range.startOffset) return false;
isDegenerate(range) == range.endOffset <= range.startOffset

\* lines 335-336 without Math.min and Math.max: the expanded offsets replace the
\* mapped ones
expandTo_replaces(range, ctx, startMapping, endMapping, genStart, genEnd) ==
    IF range.count = 0 /\ genStart.line # 0 /\ genEnd.line # 0
    THEN [startOffset |->
              lineColToOffset(ctx.lineStarts, genStart.line, genStart.column,
                              ctx.sourceLength),
          endOffset |->
              lineColToOffset(ctx.lineStarts, genEnd.line, genEnd.column,
                              ctx.sourceLength)]
    ELSE [startOffset |-> startMapping.offset, endOffset |-> endMapping.offset]

\* the expansion without `if (range.count === 0)`
expandTo_anyCount(range, ctx, startMapping, endMapping, genStart, genEnd) ==
    IF genStart.line # 0 /\ genEnd.line # 0
    THEN [startOffset |->
              Min2(startMapping.offset,
                   lineColToOffset(ctx.lineStarts, genStart.line, genStart.column,
                                   ctx.sourceLength)),
          endOffset |->
              Max2(endMapping.offset,
                   lineColToOffset(ctx.lineStarts, genEnd.line, genEnd.column,
                                   ctx.sourceLength))]
    ELSE [startOffset |-> startMapping.offset, endOffset |-> endMapping.offset]

\* lines 322-337: the offsets after the expansion to genStart and genEnd
expandTo(range, ctx, startMapping, endMapping, genStart, genEnd) ==
    IF range.count = 0 /\ genStart.line # 0 /\ genEnd.line # 0
    THEN [startOffset |->
              Min2(startMapping.offset,
                   lineColToOffset(ctx.lineStarts, genStart.line, genStart.column,
                                   ctx.sourceLength)),
          endOffset |->
              Max2(endMapping.offset,
                   lineColToOffset(ctx.lineStarts, genEnd.line, genEnd.column,
                                   ctx.sourceLength))]
    ELSE [startOffset |-> startMapping.offset, endOffset |-> endMapping.offset]

\* the count === 0 branch with the end mapping's line in both needles
expandFullLines_endLineTwice(range, ctx, startMapping, endMapping) ==
    expandTo(range, ctx, startMapping, endMapping,
             generatedPositionFor(ctx.consumer, startMapping.mapped.source,
                 endMapping.mapped.line, 0, LEAST_UPPER_BOUND),
             generatedPositionFor(ctx.consumer, startMapping.mapped.source,
                 endMapping.mapped.line, MAX_SAFE_INTEGER, GREATEST_LOWER_BOUND))

\* lines 306-338: the mapped offsets, widened to full original lines when
\* count === 0
expandFullLines(range, ctx, startMapping, endMapping) ==
    expandTo(range, ctx, startMapping, endMapping,
             generatedPositionFor(ctx.consumer, startMapping.mapped.source,
                 startMapping.mapped.line, 0, LEAST_UPPER_BOUND),
             generatedPositionFor(ctx.consumer, startMapping.mapped.source,
                 endMapping.mapped.line, MAX_SAFE_INTEGER, GREATEST_LOWER_BOUND))

\* the write-back without `if (endOffset <= startOffset) return false`
shouldWrite_anyOrder(range, startOffset, endOffset) ==
    startOffset # range.startOffset \/ endOffset # range.endOffset

\* the write-back without the comparison against the range's current offsets
shouldWrite_evenIfSame(range, startOffset, endOffset) ==
    ~(endOffset <= startOffset)

\* lines 340-346: whether the computed pair is written into the range
shouldWrite(range, startOffset, endOffset) ==
    /\ ~(endOffset <= startOffset)
    /\ (startOffset # range.startOffset \/ endOffset # range.endOffset)

\* the write-back builds the range anew and leaves its count out
writeBack_countDropped(range, startMapping, endMapping, new) ==
    IF shouldWrite(range, new.startOffset, new.endOffset)
    THEN [range |-> [startOffset |-> new.startOffset,
                     endOffset |-> new.endOffset,
                     count |-> 0],
          changed |-> TRUE,
          startMapping |-> startMapping, endMapping |-> endMapping,
          startOffset |-> new.startOffset, endOffset |-> new.endOffset]
    ELSE [range |-> range, changed |-> FALSE,
          startMapping |-> startMapping, endMapping |-> endMapping,
          startOffset |-> new.startOffset, endOffset |-> new.endOffset]

\* lines 340-346 with the computed pair `new`
writeBack(range, startMapping, endMapping, new) ==
    IF shouldWrite(range, new.startOffset, new.endOffset)
    THEN [range |-> [startOffset |-> new.startOffset,
                     endOffset |-> new.endOffset,
                     count |-> range.count],
          changed |-> TRUE,
          startMapping |-> startMapping, endMapping |-> endMapping,
          startOffset |-> new.startOffset, endOffset |-> new.endOffset]
    ELSE [range |-> range, changed |-> FALSE,
          startMapping |-> startMapping, endMapping |-> endMapping,
          startOffset |-> new.startOffset, endOffset |-> new.endOffset]

\* lines 304-346 with both mappings
normalizeWithEnd(range, ctx, startMapping, endMapping) ==
    IF ~endMapping.found THEN Unchanged(range, startMapping, endMapping)
    ELSE writeBack(range, startMapping, endMapping,
                   expandFullLines(range, ctx, startMapping, endMapping))

\* lines 296-346 with the start mapping
normalizeWithStart(range, ctx, options, startMapping) ==
    IF ~startMapping.found THEN Unchanged(range, startMapping, NotReached)
    ELSE normalizeWithEnd(range, ctx, startMapping,
             findMappedEnd(ctx, range.startOffset, range.endOffset, options,
                           startMapping.mapped.source))

normalizeRange(range, ctx, options) ==
    IF isDegenerate(range) THEN Unchanged(range, NotReached, NotReached)
    ELSE normalizeWithStart(range, ctx, options,
             findMappedStart(ctx, range.startOffset, range.endOffset, options))


(***************************************************************************)
(* Inputs: generated texts, source maps, ranges, scan budgets.             *)
(***************************************************************************)
\* at most this many lines in a generated text
MaxLines == 2

Sources == {"a.ts", "b.ts"}

\* what a segment at some generated position says: no original position at all,
\* or an original position in one of two sources
SegmentKinds ==
    { [src |-> NoSource, ol |-> 0, oc |-> 0],
      [src |-> "a.ts", ol |-> 1, oc |-> 0],
      [src |-> "a.ts", ol |-> 1, oc |-> 3],
      [src |-> "a.ts", ol |-> 2, oc |-> 0],
      [src |-> "b.ts", ol |-> 1, oc |-> 0] }

Unmapped == [src |-> "none", ol |-> 0, oc |-> 0]

NewlineCount(t) == Cardinality({i \in DOMAIN t : t[i] = NL})

Texts ==
    {t \in [1..MaxLen -> {CH, NL}] : NewlineCount(t) < MaxLines}

\* a layout gives every offset of the text (the end of the text included) either
\* a segment kind or nothing
Layouts ==
    {f \in [0..MaxLen -> SegmentKinds \cup {Unmapped}] :
        Cardinality({o \in 0..MaxLen : f[o] # Unmapped}) <= MaxSegs}

SegmentsOf(text, layout) ==
    LET ls == buildLineStarts(text)
    IN  { [gl |-> offsetToLineCol(ls, o).line, gc |-> offsetToLineCol(ls, o).column,
           src |-> layout[o].src, ol |-> layout[o].ol, oc |-> layout[o].oc] :
          o \in {x \in 0..MaxLen : layout[x] # Unmapped} }

HasTie(layout) ==
    \E o1, o2 \in 0..MaxLen :
        o1 < o2 /\ layout[o1] = layout[o2] /\ layout[o1].src \in Sources

\* the SourceContext normalizeCoverageDir builds for a generated file (lines 385-390)
SourceContextOf(text, layout, tie) ==
    [lineStarts |-> buildLineStarts(text),
     sourceLength |-> Len(text),
     consumer |-> [segs |-> SegmentsOf(text, layout), tie |-> tie]]

Counts == {0, 1}

\* the ranges handed to normalizeRange: every non-empty one inside the text, the
\* empty ones, and the inverted ones that end one offset before they start
Ranges ==
    {r \in [startOffset : 0..MaxLen, endOffset : 0..MaxLen, count : Counts] :
        r.endOffset >= r.startOffset - 1}

\* scan budgets: none, and one that is short of the longest range only
ScanBudgets == {0, MaxLen - 1}

(***************************************************************************)
(* Inputs of a pass: the coverage directory, the coverage files' contents, *)
(* the generated files the entries name.                                   *)
(***************************************************************************)
\* at most this many entries of EntryPool in the result array of a coverage file
MaxEntries == 2

\* A url is [scheme, rest]: scheme is "node:", "file:" or "" (anything else), rest
\* the text after it.  The empty url stands for a missing url as well: both are
\* falsy at `entry.url ? ... : null`.
NoUrl == [scheme |-> "", rest |-> ""]
UrlNode == [scheme |-> "node:", rest |-> "fs"]
UrlEval == [scheme |-> "", rest |-> "evalmachine.<anonymous>"]
UrlRemote == [scheme |-> "file:", rest |-> "//remote/gen/a.js"]
UrlFileA == [scheme |-> "file:", rest |-> "///gen/a.js"]
UrlPathA == [scheme |-> "", rest |-> "/gen/a.js"]
UrlPathB == [scheme |-> "", rest |-> "/gen/b.js"]

JsPaths == {"/gen/a.js", "/gen/b.js"}
NoPath == "null"

\* fileURLToPath: the path of a local file url; it throws for a url with a host
fileURLToPath(url) ==
    IF url.rest = "///gen/a.js" THEN "/gen/a.js" ELSE "throws"

\* path.isAbsolute
isAbsolute(text) == text \in JsPaths

\* path.resolve instead of the path.isAbsolute test: a relative name becomes a
\* path below the working directory
toFilePath_resolvesRelative(url) ==
    IF url = NoUrl THEN NoPath
    ELSE IF url.scheme = "node:" THEN NoPath
    ELSE IF url.scheme = "file:"
         THEN IF fileURLToPath(url) = "throws" THEN NoPath ELSE fileURLToPath(url)
    ELSE IF isAbsolute(url.rest) THEN url.rest ELSE "/gen/b.js"

toFilePath(url) ==
    IF url = NoUrl THEN NoPath
    ELSE IF url.scheme = "node:" THEN NoPath
    ELSE IF url.scheme = "file:"
         THEN IF fileURLToPath(url) = "throws" THEN NoPath ELSE fileURLToPath(url)
    ELSE IF isAbsolute(url.rest) THEN url.rest ELSE NoPath

\* What readSourceMap finds for a generated file:
\*   missing         the file does not exist
\*   nocomment       no sourceMappingURL comment
\*   dataUrl         the comment holds a data: url that is not base64 JSON
\*   sidecarMissing  the comment names a map file that does not exist
\*   badJson         the inline or the sidecar map is not JSON
\*   invalid         JSON that is no source map (the consumer cannot be built)
\*   mapped          a source map, inline or in a sidecar file
GenKinds ==
    {"missing", "nocomment", "dataUrl", "sidecarMissing", "badJson", "invalid",
     "mapped"}

\* readSourceMap(jsPath): "null", "throws" (JSON.parse), or "map" (a payload)
readSourceMap(kind) ==
    IF kind = "missing" THEN "null"
    ELSE IF kind = "nocomment" THEN "null"
    ELSE IF kind = "dataUrl" THEN "null"
    ELSE IF kind = "sidecarMissing" THEN "null"
    ELSE IF kind = "badJson" THEN "throws"
    ELSE "map"

\* The generated file behind every path that has a source map: two lines,
\* "c\ncc", the second one mapped to line 1 of a.ts by two segments.
PassText == <<CH, NL, CH, CH>>

PassSegments ==
    { [gl |-> 2, gc |-> 0, src |-> "a.ts", ol |-> 1, oc |-> 0],
      [gl |-> 2, gc |-> 1, src |-> "a.ts", ol |-> 1, oc |-> 3] }

PassContext ==
    [lineStarts |-> buildLineStarts(PassText),
     sourceLength |-> Len(PassText),
     consumer |-> [segs |-> PassSegments, tie |-> "low"]]

Rg(s, e, c) == [startOffset |-> s, endOffset |-> e, count |-> c]

\* ranges of the coverage files, by what PassContext makes of them
RangeUnmappable == Rg(0, 1, 1)
RangeNarrowed == Rg(0, 4, 1)
RangeWidened == Rg(3, 4, 0)
RangeMapped == Rg(2, 4, 1)
RangeDegenerate == Rg(3, 3, 0)

\* a function block is [hasRanges, ranges]; an entry is [url, hasFunctions, functions]
Block(ranges) == [hasRanges |-> TRUE, ranges |-> ranges]
BlockNoRanges == [hasRanges |-> FALSE, ranges |-> << >>]
Entry(url, functions) == [url |-> url, hasFunctions |-> TRUE, functions |-> functions]
EntryNoFunctions(url) == [url |-> url, hasFunctions |-> FALSE, functions |-> << >>]

\* the entries a coverage file is made of: a url that names no file, the same
\* generated file under two urls (one entry whose ranges change, one whose ranges
\* stay), and another generated file without function blocks
EntryPool ==
    { Entry(UrlNode, <<Block(<<RangeNarrowed>>)>>),
      Entry(UrlFileA, <<Block(<<RangeUnmappable, RangeNarrowed>>),
                        Block(<<RangeWidened>>)>>),
      Entry(UrlPathA, <<BlockNoRanges, Block(<<RangeDegenerate, RangeMapped>>)>>),
      EntryNoFunctions(UrlPathB) }

\* the urls toFilePath gives no path for: none, a node: builtin, a file: url with
\* a host, an eval frame
IgnoredUrls == {NoUrl, UrlNode, UrlRemote, UrlEval}

\* the entries of a coverage file that names no generated file on disk; each has
\* a range that normalizeRange would change in a mapped file
IgnoredEntries ==
    << Entry(NoUrl, <<Block(<<RangeNarrowed>>)>>),
       Entry(UrlNode, <<Block(<<RangeWidened>>)>>),
       Entry(UrlRemote, <<Block(<<RangeNarrowed>>)>>),
       Entry(UrlEval, <<Block(<<RangeMapped, RangeWidened>>)>>) >>

\* The content of a coverage file: text that does not parse, JSON whose result is
\* no array, or a result array of entries.  Unread is the content of a file the
\* pass has not opened yet: the model fixes a file's content when it is first read.
\* `form` tells the text of the file: "original", as the test run wrote it, or
\* "compact", the output of JSON.stringify(data).
Unread == [kind |-> "unread", result |-> << >>, form |-> "original"]
Malformed == [kind |-> "malformed", result |-> << >>, form |-> "original"]
NoResultArray == [kind |-> "noarray", result |-> << >>, form |-> "original"]
Coverage(entries) == [kind |-> "coverage", result |-> entries, form |-> "original"]

\* JSON.parse(fs.readFileSync(file, "utf8")): the value, without the text's form
JSONparse(content) == [kind |-> content.kind, result |-> content.result]

\* JSON.stringify(data): compact text of the value
JSONstringify(value) == [kind |-> value.kind, result |-> value.result, form |-> "compact"]

NoData == [kind |-> "unread", result |-> << >>]

EntryLists ==
    UNION { [1..n -> EntryPool] : n \in 0..MaxEntries }

CoverageContents ==
    {Malformed, NoResultArray, Coverage(IgnoredEntries)}
        \cup { Coverage(es) : es \in EntryLists }

(***************************************************************************)
(* The coverage directory.  A path is a sequence of names; a tree is       *)
(* [exists, dirs] with dirs[path] the entries readdirSync returns, each    *)
(* [name, kind] with kind "dir", "file" or "other".                        *)
(***************************************************************************)
Root == <<"coverage">>

File(name) == [name |-> name, kind |-> "file"]
Dir(name) == [name |-> name, kind |-> "dir"]

\* entry.name.endsWith(".json")
endsWithJson(name) ==
    name \in {"unit.json", "run.json", "coverage-0.json", "coverage-final.json"}

TreeMissing == [exists |-> FALSE, dirs |-> (Root :> << >>)]

TreeNoJson == [exists |-> TRUE, dirs |-> (Root :> <<File("report.txt")>>)]

TreeFlat ==
    [exists |-> TRUE, dirs |-> (Root :> <<File("report.txt"), File("unit.json")>>)]

TreeNested ==
    [exists |-> TRUE,
     dirs |-> (Root :> <<Dir("e2e"), Dir("merged"), File("unit.json"), Dir(".v8-tmp")>>)
           @@ (<<"coverage", "e2e">> :> <<Dir("merged"), File("run.json")>>)
           @@ (<<"coverage", "e2e", "merged">> :> <<File("coverage-final.json")>>)
           @@ (<<"coverage", "merged">> :> <<File("coverage-final.json")>>)
           @@ (<<"coverage", ".v8-tmp">> :> <<File("coverage-0.json")>>)]

Trees == {TreeMissing, TreeNoJson, TreeFlat, TreeNested}

\* every .json file below the root, the excluded directories included
AllJsonFiles(tree) ==
    UNION { { Append(d, tree.dirs[d][i].name) :
                i \in {k \in DOMAIN tree.dirs[d] :
                         /\ tree.dirs[d][k].kind = "file"
                         /\ endsWithJson(tree.dirs[d][k].name)} } :
            d \in DOMAIN tree.dirs }

\* if (entry.name === ".v8-tmp" || entry.name === "merged") continue;
isExcludedDir(name) == name = ".v8-tmp" \/ name = "merged"

\* walk(dir): the .json files in readdirSync order, subdirectories in place
RECURSIVE walkFrom(_, _, _)
walkFrom(tree, dir, i) ==
    IF i > Len(tree.dirs[dir]) THEN << >>
    ELSE LET entry == tree.dirs[dir][i]
             full == Append(dir, entry.name)
             here == IF entry.kind = "dir"
                     THEN IF isExcludedDir(entry.name) THEN << >>
                          ELSE walkFrom(tree, full, 1)
                     ELSE IF entry.kind = "file" /\ endsWithJson(entry.name)
                          THEN <<full>>
                          ELSE << >>
         IN  here \o walkFrom(tree, dir, i + 1)

walk(tree, dir) == walkFrom(tree, dir, 1)

(***************************************************************************)
(* State.                                                                  *)
(*                                                                         *)
(* Of a pass of normalizeCoverageDir:                                      *)
(*   pc           where the pass is: "start", "file" (top of the loop over *)
(*                jsonFiles), "entry" (top of the loop over data.result),  *)
(*                "await" (at `await new SourceMapConsumer(map)`), "range" *)
(*                (inside the loops over functions and ranges), "write"    *)
(*                (after the entries of a file), "finally", "done";        *)
(*                "idle" when no pass runs                                 *)
(*   tree         the coverage directory                                   *)
(*   options      NormalizerOptions (maxScan)                              *)
(*   jsonFiles    the files walk collected                                 *)
(*   fileIdx, entryIdx, blockIdx, rangeIdx   the loops' positions          *)
(*   data         the parsed CoverageFile being processed                  *)
(*   updated      the flag of the same name                                *)
(*   disk         the content of every coverage file; each content has a   *)
(*                form, "original" or "compact" (JSON.stringify's output)  *)
(*   sourceCache  jsPath -> "undefined" (no key), "null" or "ctx"          *)
(*   consumers    jsPath -> "none", "live" or "destroyed"                  *)
(*   genKind      what the file system holds for a generated file, fixed   *)
(*                when the pass first looks ("unknown" before)             *)
(*   error        the error the pass threw, "none" if it did not           *)
(* History, kept for the statements only:                                  *)
(*   disk0        the content every coverage file had when it was read     *)
(*   reads        how often readSourceMap was called for a path            *)
(*   builds       how often a consumer was constructed for a path          *)
(*   writes       how often a coverage file was written                    *)
(*   changedIn    the files with a range for which normalizeRange returned *)
(*                true                                                     *)
(*   usedDead     a consumer was handed to normalizeRange while not live   *)
(*   last         the latest call of normalizeRange: where, on what, and   *)
(*                its result                                               *)
(* Of the merge driver (scripts/coverage.ts):                              *)
(*   mpc              where the driver is: "boot" (the signal handlers are *)
(*                    registered), "normalize" (at `await                  *)
(*                    normalizeV8Coverage`), "collect", "copy", "spawn",   *)
(*                    "child" (at `await new Promise`), "settled" (the     *)
(*                    promise of runC8Report is settled), "exited";        *)
(*                    "idle" when no driver runs                           *)
(*   v8CoverageFiles  the files collectV8CoverageFiles returned            *)
(*   tmpDir           coverage/.v8-tmp: the content of coverage-<i>.json   *)
(*   mergedDir        coverage/merged: "absent", "empty" or "reports"      *)
(*   activeChild      "null" or "child"                                    *)
(*   child            the c8 subprocess: state ("none", "running",         *)
(*                    "closed"), pid (defined or not), signal (the signal  *)
(*                    the driver sent it, "none" if it sent none), status  *)
(*   isCancelling     the flag of the same name                            *)
(*   pending          the signals the process has received that no handler *)
(*                    has been run for                                     *)
(*   handled          the signal handleTermination ran for, "none" if it   *)
(*                    did not run (history)                                *)
(*   exitCode         the status the process exited with, once mpc is      *)
(*                    "exited"                                             *)
(* Of a keep-alive test case (tests/integration/keep-alive.spec.ts):       *)
(*   kpc        where runKeepAliveCase is: "start", "scenario" (at `await  *)
(*              runScenario`), "exit" (at `await waitForChildExit`),       *)
(*              "loop" (top of the loop of assertStaysOpen or              *)
(*              waitForClosed), "check" (at `await check()`), "sleep" (at  *)
(*              the setTimeout of the loop), "finally", "done"; "idle"     *)
(*              when no case runs                                          *)
(*   testCase   the KeepAliveCase                                          *)
(*   windowMs   STAY_OPEN_MS for a case that expects the browser open, the *)
(*              close timeout for one that expects it closed, in units of  *)
(*              500 ms                                                     *)
(*   elapsed    Date.now() - start, in the same units                      *)
(*   begun      `elapsed` when the check under way began                   *)
(*   checks     the liveness checks so far: when each began, when it       *)
(*              reported, and what it reported (history)                   *)
(*   outcome    "running", "skipped", "passed" or "failed"                 *)
(* Of the single-range runs (RangeSpec):                                   *)
(*   rCtx      the SourceContext of the generated file                     *)
(*   rGiven    the range as the coverage file gave it                      *)
(*   rBefore   the range handed to the latest call                         *)
(*   rRange    the range as the latest call left it                        *)
(*   rCalls    the number of calls so far                                  *)
(*   rFirst    the result of the first call                                *)
(*   rResult   the result of the latest call                               *)
(***************************************************************************)
VARIABLES pc, tree, options, jsonFiles, fileIdx, entryIdx, blockIdx, rangeIdx,
          data, updated, disk, sourceCache, consumers, genKind, error,
          disk0, reads, builds, writes, changedIn, usedDead, last,
          rCtx, rGiven, rBefore, rRange, rCalls, rFirst, rResult,
          mpc, v8CoverageFiles, tmpDir, mergedDir, activeChild, child,
          isCancelling, pending, handled, exitCode,
          kpc, testCase, windowMs, elapsed, begun, checks, outcome,
          lpc, lText, lOffset, lLow, lHigh, lRounds, lPos, lBack,
          procEnv, userEnv,
          runner, boot, harness

passVars == <<pc, tree, jsonFiles, fileIdx, entryIdx, blockIdx, rangeIdx,
              data, updated, disk, sourceCache, consumers, genKind, error,
              disk0, reads, builds, writes, changedIn, usedDead, last>>

rangeVars == <<rCtx, rGiven, rBefore, rRange, rCalls, rFirst, rResult>>

mergeVars == <<mpc, v8CoverageFiles, tmpDir, mergedDir, activeChild, child,
               isCancelling, pending, handled, exitCode>>

keepAliveVars == <<kpc, testCase, windowMs, elapsed, begun, checks, outcome>>

lineVars == <<lpc, lText, lOffset, lLow, lHigh, lRounds, lPos, lBack>>

\* process.env.V8_COVERAGE_SCAN_LIMIT, and what it was when the process started
envVars == <<procEnv, userEnv>>

\* the server test runner (test-server.ts), and the processes started from one
\* SEA binary with their cache directory (build-sea.ts, the bootstrap); one
\* keep-alive case with its child process (runScenario, runKeepAliveCase)
scriptVars == <<runner, boot, harness>>

\* the variables of the other programs of the repository
restVars == <<mergeVars, keepAliveVars, lineVars, envVars, scriptVars>>

\* what a step of the merge driver, or of a keep-alive case, leaves alone
asidePrograms == <<rangeVars, keepAliveVars, lineVars, scriptVars>>
asideMerge == <<asidePrograms, envVars>>
asideKeepAlive == <<passVars, options, rangeVars, mergeVars, lineVars, envVars,
                    scriptVars>>
\* what a step of the line-table routines leaves alone
asideLine == <<passVars, options, rangeVars, mergeVars, keepAliveVars, envVars,
               scriptVars>>

\* what a step of the server test runner, or of a bootstrap, leaves alone
asideRunner == <<passVars, options, rangeVars, mergeVars, keepAliveVars, lineVars,
                 envVars, boot, harness>>
asideBoot == <<passVars, options, rangeVars, mergeVars, keepAliveVars, lineVars,
               envVars, runner, harness>>
asideHarness == <<passVars, options, rangeVars, mergeVars, keepAliveVars, lineVars,
                  envVars, runner, boot>>

vars == <<passVars, options, rangeVars, restVars>>

NoRange == [startOffset |-> 0, endOffset |-> 0, count |-> 0]

NoResult == Unchanged(NoRange, NotReached, NotReached)

NoCall == [file |-> << >>, entry |-> 0, block |-> 0, range |-> 0,
           given |-> NoRange, result |-> NoResult]

NoPass ==
    /\ pc = "idle"
    /\ tree = TreeMissing
    /\ jsonFiles = << >>
    /\ fileIdx = 0 /\ entryIdx = 0 /\ blockIdx = 0 /\ rangeIdx = 0
    /\ data = NoData
    /\ updated = FALSE
    /\ disk = << >>
    /\ disk0 = << >>
    /\ sourceCache = [p \in JsPaths |-> "undefined"]
    /\ consumers = [p \in JsPaths |-> "none"]
    /\ genKind = [p \in JsPaths |-> "unknown"]
    /\ error = "none"
    /\ reads = [p \in JsPaths |-> 0]
    /\ builds = [p \in JsPaths |-> 0]
    /\ writes = << >>
    /\ changedIn = {}
    /\ usedDead = FALSE
    /\ last = NoCall

\* the `null` code of a close event: the subprocess was ended by a signal
NoExitCode == -1

\* a subprocess: its state, whether it has a pid, the signal the driver sent it,
\* the code of its close event, and the status its promise settled with
NoChild == [state |-> "none", pid |-> FALSE, signal |-> "none",
            code |-> NoExitCode, status |-> 0]

NoMerge ==
    /\ mpc = "idle"
    /\ v8CoverageFiles = << >>
    /\ tmpDir = << >>
    /\ mergedDir = "absent"
    /\ activeChild = "null"
    /\ child = NoChild
    /\ isCancelling = FALSE
    /\ pending = {}
    /\ handled = "none"
    /\ exitCode = 0

NoCase == [env |-> "LOCAL", envLabel |-> "local", keepAlive |-> FALSE,
           disableAPI |-> FALSE, kind |-> "close", requiresBrowserbase |-> FALSE]

NoKeepAlive ==
    /\ kpc = "idle"
    /\ testCase = NoCase
    /\ windowMs = 0
    /\ elapsed = 0
    /\ begun = 0
    /\ checks = << >>
    /\ outcome = "running"

\* an environment variable is [set, text]: whether it is in the environment, and
\* its text, a sequence of characters
Unset == [set |-> FALSE, text |-> << >>]
EnvText(text) == [set |-> TRUE, text |-> text]

NoEnv ==
    /\ procEnv = Unset
    /\ userEnv = Unset

NoLine ==
    /\ lpc = "idle"
    /\ lText = << >>
    /\ lOffset = 0
    /\ lLow = 0
    /\ lHigh = 0
    /\ lRounds = 0
    /\ lPos = [line |-> 1, column |-> 0]
    /\ lBack = 0

\* the clock of waitForServer has not been read
NoTime == -1

\* test-server.ts before line 354: nothing has run, no server process exists
NoRunner == [pc |-> "idle", target |-> "sea", seaBinary |-> FALSE,
             unitPaths |-> FALSE, integrationPaths |-> FALSE,
             status |-> 0, unitStatus |-> NoExitCode, serverProc |-> "null",
             sigterm |-> FALSE, listening |-> FALSE, now |-> 0,
             fetchAt |-> NoTime, okAt |-> NoTime, waited |-> FALSE,
             ranIntegration |-> FALSE, thrown |-> FALSE, exit |-> NoExitCode]

\* no process has been started from the SEA binary
NoBoot == [files |-> << >>, pc |-> << >>, renameFailed |-> << >>,
           imported |-> << >>]

\* a promise that is not settled
Pending == [state |-> "pending", by |-> "none", line |-> 0]

\* no keep-alive case has been started
NoHarness == [pc |-> "idle", env |-> "LOCAL", kind |-> "close", keepAlive |-> FALSE,
              connectURL |-> FALSE, sessionId |-> FALSE,
              childState |-> "none", signals |-> {}, emitted |-> 0,
              inPipe |-> << >>, exitPending |-> FALSE, errorPending |-> FALSE,
              resolved |-> FALSE, timer |-> "none", infoPromise |-> Pending,
              assertion |-> "none", stopped |-> FALSE, closeRequested |-> FALSE,
              releaseRequested |-> FALSE, outcome |-> "running"]

NoScripts ==
    /\ runner = NoRunner
    /\ boot = NoBoot
    /\ harness = NoHarness

NoRangeRun ==
    /\ rCtx = PassContext
    /\ rGiven = NoRange
    /\ rBefore = NoRange
    /\ rRange = NoRange
    /\ rCalls = 0
    /\ rFirst = NoResult
    /\ rResult = NoResult

(***************************************************************************)
(* RangeSpec: normalizeRange on one range, then on its own output.         *)
(***************************************************************************)
RangeInit ==
    /\ NoPass
    /\ NoMerge
    /\ NoKeepAlive
    /\ NoLine
    /\ NoEnv
    /\ NoScripts
    /\ \E text \in Texts, layout \in Layouts :
         \E tie \in IF HasTie(layout) THEN {"low", "high"} ELSE {"low"} :
            rCtx = SourceContextOf(text, layout, tie)
    /\ options \in [maxScan : ScanBudgets]
    /\ rGiven = NoRange
    /\ rBefore = NoRange
    /\ rRange = NoRange
    /\ rCalls = 0
    /\ rFirst = NoResult
    /\ rResult = NoResult

\* normalizeRange(range, ctx, options) on a range of a coverage file
NormalizeGiven ==
    /\ pc = "idle"
    /\ rCalls = 0
    /\ \E range \in Ranges :
         /\ rGiven' = range
         /\ rBefore' = range
         /\ rResult' = normalizeRange(range, rCtx, options)
         /\ rFirst' = rResult'
         /\ rRange' = rResult'.range
    /\ rCalls' = 1
    /\ UNCHANGED <<rCtx, options, passVars, restVars>>

\* normalizeRange on the range the previous call left: the next run of the
\* normalizer over the same coverage file
NormalizeAgain ==
    /\ pc = "idle"
    /\ rCalls = 1
    /\ rBefore' = rRange
    /\ rResult' = normalizeRange(rRange, rCtx, options)
    /\ rRange' = rResult'.range
    /\ rCalls' = 2
    /\ UNCHANGED <<rCtx, options, rGiven, rFirst, passVars, restVars>>

(***************************************************************************)
(* The two-statement fixture: a generated file of two statements on two    *)
(* lines whose source map maps the second statement, column for column, to *)
(* line 2 of the original.                                                 *)
(***************************************************************************)
FixtureText ==
    <<"c", "o", "n", "s", "t", " ", "a", "=", "1", ";", NL,
      "c", "o", "n", "s", "t", " ", "b", "=", "2", ";">>

FixtureSource == "a.ts"

\* the columns of the second statement a map can have a segment at: the
\* statement, the name, the semicolon
FixtureColumns == {0, 6, 9}

\* a segment of the fixture map: generated (line, column) to the same column of
\* the same line of the original
FixtureSegment(line, column) ==
    [gl |-> line, gc |-> column, src |-> FixtureSource, ol |-> line, oc |-> column]

\* the source maps of the fixture: one or more segments on the second
\* statement, and the first statement mapped or not
FixtureMaps ==
    { { FixtureSegment(2, c) : c \in cols } \cup first :
        cols \in (SUBSET FixtureColumns) \ {{}},
        first \in {{}, {FixtureSegment(1, 0)}} }

\* the SourceContext of the fixture (lines 385-390)
FixtureContexts ==
    { [lineStarts |-> buildLineStarts(FixtureText),
       sourceLength |-> Len(FixtureText),
       consumer |-> [segs |-> segs, tie |-> "low"]] : segs \in FixtureMaps }

\* the range of the fixture: the second statement, never executed
FixtureRange ==
    [startOffset |-> Len(FixtureText) - 10, endOffset |-> Len(FixtureText),
     count |-> 0]

\* every non-empty range of the fixture file
FixtureRanges ==
    {r \in [startOffset : 0..Len(FixtureText), endOffset : 0..Len(FixtureText),
            count : Counts] : r.endOffset > r.startOffset}

FixtureInit ==
    /\ NoPass
    /\ NoMerge
    /\ NoKeepAlive
    /\ NoLine
    /\ NoEnv
    /\ NoScripts
    /\ rCtx \in FixtureContexts
    /\ options \in [maxScan : {0, DefaultMaxScan}]
    /\ rGiven = NoRange
    /\ rBefore = NoRange
    /\ rRange = NoRange
    /\ rCalls = 0
    /\ rFirst = NoResult
    /\ rResult = NoResult

\* normalizeRange on a range of the fixture file
NormalizeFixture ==
    /\ pc = "idle"
    /\ rCalls = 0
    /\ \E range \in FixtureRanges :
         /\ rGiven' = range
         /\ rBefore' = range
         /\ rResult' = normalizeRange(range, rCtx, options)
         /\ rFirst' = rResult'
         /\ rRange' = rResult'.range
    /\ rCalls' = 1
    /\ UNCHANGED <<rCtx, options, passVars, restVars>>

FixtureNext == NormalizeFixture \/ NormalizeAgain

FixtureSpec == FixtureInit /\ [][FixtureNext]_vars

RangeNext == NormalizeGiven \/ NormalizeAgain

RangeSpec == RangeInit /\ [][RangeNext]_vars

(***************************************************************************)
(* normalizeV8Coverage: the scan budget from the environment.              *)
(***************************************************************************)
DigitValue(c) ==
    CASE c = "0" -> 0 [] c = "1" -> 1 [] c = "2" -> 2 [] c = "3" -> 3
      [] c = "4" -> 4 [] c = "5" -> 5 [] c = "6" -> 6 [] c = "7" -> 7
      [] c = "8" -> 8 [] c = "9" -> 9

\* Number(text) for a text of decimal digits; Number("") is 0
RECURSIVE NumberOfDigits(_, _)
NumberOfDigits(text, acc) ==
    IF text = << >> THEN acc
    ELSE NumberOfDigits(Tail(text), 10 * acc + DigitValue(Head(text)))

NumberOf(text) == NumberOfDigits(text, 0)

\* the budget with `||` in place of `??`: an empty text gives the default too
scanLimitOf_emptyIsUnset(v) ==
    IF ~v.set \/ v.text = << >> THEN DefaultMaxScan ELSE NumberOf(v.text)

\* line 421: Number(process.env.V8_COVERAGE_SCAN_LIMIT ?? 20000)
scanLimitOf(v) ==
    IF ~v.set THEN DefaultMaxScan ELSE NumberOf(v.text)

(***************************************************************************)
(* Spec: one pass of normalizeCoverageDir.                                 *)
(***************************************************************************)
Init ==
    /\ NoRangeRun
    /\ NoMerge
    /\ NoKeepAlive
    /\ NoLine
    /\ NoEnv
    /\ NoScripts
    /\ pc = "start"
    /\ tree \in Trees
    /\ options = [maxScan |-> DefaultMaxScan]
    /\ jsonFiles = << >>
    /\ fileIdx = 0 /\ entryIdx = 0 /\ blockIdx = 0 /\ rangeIdx = 0
    /\ data = NoData
    /\ updated = FALSE
    /\ disk = [f \in AllJsonFiles(tree) |-> Unread]
    /\ disk0 = [f \in AllJsonFiles(tree) |-> Unread]
    /\ sourceCache = [p \in JsPaths |-> "undefined"]
    /\ consumers = [p \in JsPaths |-> "none"]
    /\ genKind = [p \in JsPaths |-> "unknown"]
    /\ error = "none"
    /\ reads = [p \in JsPaths |-> 0]
    /\ builds = [p \in JsPaths |-> 0]
    /\ writes = [f \in AllJsonFiles(tree) |-> 0]
    /\ changedIn = {}
    /\ usedDead = FALSE
    /\ last = NoCall

\* lines 350-366: nothing to do without a directory or without .json files
Start ==
    /\ pc = "start"
    /\ IF ~tree.exists
       THEN pc' = "done" /\ UNCHANGED <<jsonFiles, fileIdx>>
       ELSE /\ jsonFiles' = walk(tree, Root)
            /\ IF jsonFiles' = << >>
               THEN pc' = "done" /\ UNCHANGED fileIdx
               ELSE pc' = "file" /\ fileIdx' = 1
    /\ UNCHANGED <<tree, options, entryIdx, blockIdx, rangeIdx, data, updated, disk,
                   sourceCache, consumers, genKind, error, disk0, reads, builds,
                   writes, changedIn, usedDead, last, rangeVars, restVars>>

file == jsonFiles[fileIdx]

\* the contents a file can turn out to have when it is read
ContentsOf(f) == IF disk[f] = Unread THEN CoverageContents ELSE {disk[f]}

\* line 371-373: read and parse the next file; `continue` when result is no array
ReadFile ==
    /\ pc = "file"
    /\ fileIdx <= Len(jsonFiles)
    /\ \E c \in ContentsOf(file) :
         /\ c.kind # "malformed"
         /\ disk' = [disk EXCEPT ![file] = c]
         /\ disk0' = [disk0 EXCEPT ![file] = c]
         /\ IF c.kind = "noarray"
            THEN /\ fileIdx' = fileIdx + 1
                 /\ UNCHANGED <<pc, data, updated, entryIdx>>
            ELSE /\ data' = JSONparse(c)
                 /\ updated' = FALSE
                 /\ entryIdx' = 1
                 /\ pc' = "entry"
                 /\ UNCHANGED fileIdx
    /\ UNCHANGED <<tree, options, jsonFiles, blockIdx, rangeIdx, sourceCache,
                   consumers, genKind, error, reads, builds, writes, changedIn,
                   usedDead, last, rangeVars, restVars>>

\* an error that is caught instead of thrown: the pass goes on with the loop
throw_swallowed(err) ==
    /\ error' = err
    /\ pc' = "file"

\* an exception inside the try block: nothing catches it, the finally block runs
\* and the error leaves normalizeCoverageDir
throw(err) ==
    /\ error' = err
    /\ pc' = "finally"

\* line 371: JSON.parse throws on a malformed file
ReadFileThrows ==
    /\ pc = "file"
    /\ fileIdx <= Len(jsonFiles)
    /\ Malformed \in ContentsOf(file)
    /\ disk' = [disk EXCEPT ![file] = Malformed]
    /\ disk0' = [disk0 EXCEPT ![file] = Malformed]
    /\ throw("json")
    /\ UNCHANGED <<tree, options, jsonFiles, fileIdx, entryIdx, blockIdx, rangeIdx,
                   data, updated, sourceCache, consumers, genKind, reads, builds,
                   writes, changedIn, usedDead, last, rangeVars, restVars>>

\* the loop over jsonFiles is over
FilesDone ==
    /\ pc = "file"
    /\ fileIdx > Len(jsonFiles)
    /\ pc' = "finally"
    /\ UNCHANGED <<tree, options, jsonFiles, fileIdx, entryIdx, blockIdx, rangeIdx,
                   data, updated, disk, sourceCache, consumers, genKind, error,
                   disk0, reads, builds, writes, changedIn, usedDead, last,
                   rangeVars, restVars>>


entry == data.result[entryIdx]

\* const jsPath = entry.url ? toFilePath(entry.url) : null;
jsPathOf(e) == IF e.url = NoUrl THEN NoPath ELSE toFilePath(e.url)

\* `continue` in the loop over data.result
NextEntry ==
    /\ pc' = "entry"
    /\ entryIdx' = entryIdx + 1
    /\ UNCHANGED <<blockIdx, rangeIdx>>

\* lines 393-395 without `if (!ctx) continue`
AfterLookup_withoutNullTest(cached) ==
    IF ~entry.hasFunctions
    THEN NextEntry
    ELSE /\ pc' = "range"
         /\ blockIdx' = 1
         /\ rangeIdx' = 1
         /\ UNCHANGED entryIdx

\* lines 393-395 with the cached value: skip the entry, or enter its ranges
AfterLookup(cached) ==
    IF cached = "null" \/ ~entry.hasFunctions
    THEN NextEntry
    ELSE /\ pc' = "range"
         /\ blockIdx' = 1
         /\ rangeIdx' = 1
         /\ UNCHANGED entryIdx

\* what the file system turns out to hold for a generated file
KindsOf(p) == IF genKind[p] = "unknown" THEN GenKinds ELSE {genKind[p]}

\* line 382 left out: a path without a source map is not remembered
cacheNoMap_forgets(cache, p) == cache

\* sourceCache.set(jsPath, null) at line 382
cacheNoMap(cache, p) == [cache EXCEPT ![p] = "null"]

\* lines 375-393 up to the await: the entry's path, the cache, readSourceMap
ResolveEntry ==
    /\ pc = "entry"
    /\ entryIdx <= Len(data.result)
    /\ LET jsPath == jsPathOf(entry)
       IN  IF jsPath = NoPath
           THEN NextEntry /\ UNCHANGED <<sourceCache, genKind, reads, error>>
           ELSE IF sourceCache[jsPath] # "undefined"
           THEN /\ AfterLookup(sourceCache[jsPath])
                /\ UNCHANGED <<sourceCache, genKind, reads, error>>
           ELSE \E kind \in KindsOf(jsPath) :
                  /\ genKind' = [genKind EXCEPT ![jsPath] = kind]
                  /\ reads' = [reads EXCEPT ![jsPath] = @ + 1]
                  /\ readSourceMap(kind) # "throws"
                  /\ IF readSourceMap(kind) = "null"
                     THEN /\ sourceCache' = cacheNoMap(sourceCache, jsPath)
                          /\ NextEntry
                     ELSE /\ pc' = "await"
                          /\ UNCHANGED <<sourceCache, entryIdx, blockIdx, rangeIdx>>
                  /\ UNCHANGED error
    /\ UNCHANGED <<tree, options, jsonFiles, fileIdx, data, updated, disk, consumers,
                   disk0, builds, writes, changedIn, usedDead, last, rangeVars, restVars>>

\* readSourceMap throws: the inline or the sidecar map is not JSON
ReadSourceMapThrows ==
    /\ pc = "entry"
    /\ entryIdx <= Len(data.result)
    /\ LET jsPath == jsPathOf(entry)
       IN  /\ jsPath # NoPath
           /\ sourceCache[jsPath] = "undefined"
           /\ \E kind \in KindsOf(jsPath) :
                /\ readSourceMap(kind) = "throws"
                /\ genKind' = [genKind EXCEPT ![jsPath] = kind]
                /\ reads' = [reads EXCEPT ![jsPath] = @ + 1]
    /\ throw("map")
    /\ UNCHANGED <<tree, options, jsonFiles, fileIdx, entryIdx, blockIdx, rangeIdx,
                   data, updated, disk, sourceCache, consumers, disk0, builds,
                   writes, changedIn, usedDead, last, rangeVars, restVars>>

\* the entries of the file are over
EntriesDone ==
    /\ pc = "entry"
    /\ entryIdx > Len(data.result)
    /\ pc' = "write"
    /\ UNCHANGED <<tree, options, jsonFiles, fileIdx, entryIdx, blockIdx, rangeIdx,
                   data, updated, disk, sourceCache, consumers, genKind, error,
                   disk0, reads, builds, writes, changedIn, usedDead, last,
                   rangeVars, restVars>>

\* lines 386-391: the consumer is built, the context cached
ConsumerBuilt ==
    /\ pc = "await"
    /\ LET jsPath == jsPathOf(entry)
       IN  /\ genKind[jsPath] # "invalid"
           /\ sourceCache' = [sourceCache EXCEPT ![jsPath] = "ctx"]
           /\ consumers' = [consumers EXCEPT ![jsPath] = "live"]
           /\ builds' = [builds EXCEPT ![jsPath] = @ + 1]
    /\ AfterLookup("ctx")
    /\ UNCHANGED <<tree, options, jsonFiles, fileIdx, data, updated, disk, genKind,
                   error, disk0, reads, writes, changedIn, usedDead, last,
                   rangeVars, restVars>>

\* line 389: the constructor rejects the payload
ConsumerFails ==
    /\ pc = "await"
    /\ genKind[jsPathOf(entry)] = "invalid"
    /\ throw("consumer")
    /\ UNCHANGED <<tree, options, jsonFiles, fileIdx, entryIdx, blockIdx, rangeIdx,
                   data, updated, disk, sourceCache, consumers, genKind, disk0,
                   reads, builds, writes, changedIn, usedDead, last, rangeVars, restVars>>


\* the context the cache holds for a path with a source map
contextOf(p) == PassContext

\* lines 398-400: `if (normalizeRange(range, ctx, options)) updated = true`
markUpdated(flag, changed) == flag \/ changed

\* lines 394-402: one step of the loops over entry.functions and block.ranges
NormalizeStep ==
    /\ pc = "range"
    /\ LET fns == entry.functions
       IN  IF blockIdx > Len(fns)
           THEN /\ NextEntry
                /\ UNCHANGED <<data, updated, changedIn, usedDead, last>>
           ELSE IF ~fns[blockIdx].hasRanges \/ rangeIdx > Len(fns[blockIdx].ranges)
           THEN /\ blockIdx' = blockIdx + 1
                /\ rangeIdx' = 1
                /\ UNCHANGED <<pc, entryIdx, data, updated, changedIn, usedDead, last>>
           ELSE LET jsPath == jsPathOf(entry)
                    range == fns[blockIdx].ranges[rangeIdx]
                    res == normalizeRange(range, contextOf(jsPath), options)
                IN  /\ data' = [data EXCEPT
                          !.result[entryIdx].functions[blockIdx].ranges[rangeIdx] =
                              res.range]
                    /\ updated' = markUpdated(updated, res.changed)
                    /\ changedIn' = IF res.changed THEN changedIn \cup {file}
                                    ELSE changedIn
                    /\ usedDead' = (usedDead \/ consumers[jsPath] # "live")
                    /\ last' = [file |-> file, entry |-> entryIdx, block |-> blockIdx,
                                range |-> rangeIdx, given |-> range, result |-> res]
                    /\ rangeIdx' = rangeIdx + 1
                    /\ UNCHANGED <<pc, entryIdx, blockIdx>>
    /\ UNCHANGED <<tree, options, jsonFiles, fileIdx, disk, sourceCache, consumers,
                   genKind, error, disk0, reads, builds, writes, rangeVars, restVars>>

\* the file is written whether or not a range changed
shouldRewrite_always(flag) == TRUE

\* `if (updated)` at line 405
shouldRewrite(flag) == flag

\* lines 405-407: rewrite the file if a range changed, then go on to the next file
WriteFile ==
    /\ pc = "write"
    /\ IF shouldRewrite(updated)
       THEN /\ disk' = [disk EXCEPT ![file] = JSONstringify(data)]
            /\ writes' = [writes EXCEPT ![file] = @ + 1]
       ELSE UNCHANGED <<disk, writes>>
    /\ fileIdx' = fileIdx + 1
    /\ pc' = "file"
    /\ UNCHANGED <<tree, options, jsonFiles, entryIdx, blockIdx, rangeIdx, data,
                   updated, sourceCache, consumers, genKind, error, disk0, reads,
                   builds, changedIn, usedDead, last, rangeVars, restVars>>

\* line 406: writeFileSync throws; the file is as it was or holds a part of the text
WriteFails ==
    /\ pc = "write"
    /\ shouldRewrite(updated)
    /\ \/ UNCHANGED disk
       \/ disk' = [disk EXCEPT ![file] = [Malformed EXCEPT !.form = "compact"]]
    /\ throw("io")
    /\ UNCHANGED <<tree, options, jsonFiles, fileIdx, entryIdx, blockIdx, rangeIdx,
                   data, updated, sourceCache, consumers, genKind, disk0, reads,
                   builds, writes, changedIn, usedDead, last, rangeVars, restVars>>

\* the consumers are destroyed after the loop only, not in a finally block
destroyAll_unlessThrown(cs, cache) ==
    [p \in JsPaths |-> IF cache[p] = "ctx" /\ error = "none" THEN "destroyed"
                       ELSE cs[p]]

\* lines 410-412: destroy the consumer of every cached context
destroyAll(cs, cache) ==
    [p \in JsPaths |-> IF cache[p] = "ctx" THEN "destroyed" ELSE cs[p]]

\* the finally block, after which the pass returns or rethrows
Finally ==
    /\ pc = "finally"
    /\ consumers' = destroyAll(consumers, sourceCache)
    /\ pc' = "done"
    /\ UNCHANGED <<tree, options, jsonFiles, fileIdx, entryIdx, blockIdx, rangeIdx,
                   data, updated, disk, sourceCache, genKind, error, disk0, reads,
                   builds, writes, changedIn, usedDead, last, rangeVars, restVars>>

Next ==
    \/ Start
    \/ ReadFile
    \/ ReadFileThrows
    \/ FilesDone
    \/ ResolveEntry
    \/ ReadSourceMapThrows
    \/ EntriesDone
    \/ ConsumerBuilt
    \/ ConsumerFails
    \/ NormalizeStep
    \/ WriteFile
    \/ WriteFails
    \/ Finally

Spec == Init /\ [][Next]_vars

Returned == pc = "done" /\ error = "none"
Thrown == pc = "done" /\ error # "none"

(***************************************************************************)
(* MergeSpec: the merge driver, scripts/coverage.ts, run as                *)
(* `coverage merge`.  It removes the output of an earlier merge, runs the  *)
(* pass above over the coverage directory, collects the coverage files,    *)
(* copies them to coverage/.v8-tmp and runs `c8 report` on the copies.     *)
(*                                                                         *)
(* The driver is one thread.  A signal the process receives is pending     *)
(* until the event loop runs its handler, and the event loop runs only     *)
(* where the code waits for something: at `await new SourceMapConsumer`    *)
(* inside the pass and at `await new Promise` while the subprocess runs.   *)
(* The stretches between two such points are synchronous; the              *)
(* continuation of a settled promise is a microtask and runs before the    *)
(* event loop looks at signals again.                                      *)
(***************************************************************************)
Signals == {"SIGINT", "SIGTERM"}

\* const exitCodeForSignal = (signal) => signal === "SIGINT" ? 130 : 143
exitCodeForSignal(signal) == IF signal = "SIGINT" THEN 130 ELSE 143

\* process.env.V8_COVERAGE_SCAN_LIMIT = "2000" when the variable is not set
DriverScanLimit == 2000

\* process.env.V8_COVERAGE_SCAN_LIMIT = "2000"
DriverScanLimitText == <<"2", "0", "0", "0">>

\* lines 49-51 with the assignment made whatever the variable holds
driverDefault_always(v) == EnvText(DriverScanLimitText)

\* lines 49-51: `if (!process.env.V8_COVERAGE_SCAN_LIMIT)` is true of a variable
\* that is not set and of one that is set to the empty string
driverDefault(v) ==
    IF ~v.set \/ v.text = << >> THEN EnvText(DriverScanLimitText) ELSE v

\* a path lies in a directory named dir, at any depth
Below(path, dirName) == \E k \in 2..(Len(path) - 1) : path[k] = dirName

UnderExcluded(path) == Below(path, ".v8-tmp") \/ Below(path, "merged")

\* a coverage file an earlier run left behind in an output directory: it has a
\* range the pass would change
StaleCoverage ==
    Coverage(<<Entry(UrlFileA, <<Block(<<RangeNarrowed>>)>>)>>)

\* fs.rmSync(`${repoRoot}/coverage/<name>`, { recursive: true, force: true })
rmSync(t, dirName) ==
    [exists |-> t.exists,
     dirs |-> [d \in {x \in DOMAIN t.dirs : Len(x) < 2 \/ x[2] # dirName} |->
                 IF d = Root
                 THEN SelectSeq(t.dirs[d],
                                LAMBDA dirent : ~(dirent.kind = "dir"
                                                 /\ dirent.name = dirName))
                 ELSE t.dirs[d]]]

\* if (entry.name === ".v8-tmp" || entry.name === "merged") continue;  without
\* the test
isSkippedDir_never(name) == FALSE

\* coverage.ts line 69
isSkippedDir(name) == name = ".v8-tmp" \/ name = "merged"

\* lines 76-83: the file has text, the text parses, and parsed.result is truthy
\* (an array is; a result that is no array is taken to be absent); a file that
\* does not parse is ignored by the catch block
isV8Coverage(content) == content.kind = "coverage"

\* the walk of collectV8CoverageFiles, in readdirSync order
RECURSIVE collectFrom(_, _, _, _)
collectFrom(t, contents, dir, i) ==
    IF i > Len(t.dirs[dir]) THEN << >>
    ELSE LET dirent == t.dirs[dir][i]
             fullPath == Append(dir, dirent.name)
             here == IF dirent.kind = "dir"
                     THEN IF isSkippedDir(dirent.name) THEN << >>
                          ELSE collectFrom(t, contents, fullPath, 1)
                     ELSE IF dirent.kind = "file" /\ endsWithJson(dirent.name)
                               /\ isV8Coverage(contents[fullPath])
                          THEN <<fullPath>>
                          ELSE << >>
         IN  here \o collectFrom(t, contents, dir, i + 1)

collectV8CoverageFiles(t, contents) ==
    IF ~t.exists THEN << >> ELSE collectFrom(t, contents, Root, 1)

MergeInit ==
    /\ NoRangeRun
    /\ NoKeepAlive
    /\ NoLine
    /\ NoEnv
    /\ NoScripts
    /\ pc = "idle"
    /\ tree \in Trees
    /\ options = [maxScan |-> DefaultMaxScan]
    /\ jsonFiles = << >>
    /\ fileIdx = 0 /\ entryIdx = 0 /\ blockIdx = 0 /\ rangeIdx = 0
    /\ data = NoData
    /\ updated = FALSE
    /\ disk = [f \in AllJsonFiles(tree) |->
                 IF UnderExcluded(f) THEN StaleCoverage ELSE Unread]
    /\ disk0 = [f \in AllJsonFiles(tree) |-> Unread]
    /\ sourceCache = [p \in JsPaths |-> "undefined"]
    /\ consumers = [p \in JsPaths |-> "none"]
    /\ genKind = [p \in JsPaths |-> "unknown"]
    /\ error = "none"
    /\ reads = [p \in JsPaths |-> 0]
    /\ builds = [p \in JsPaths |-> 0]
    /\ writes = [f \in AllJsonFiles(tree) |-> 0]
    /\ changedIn = {}
    /\ usedDead = FALSE
    /\ last = NoCall
    /\ mpc = "boot"
    /\ v8CoverageFiles = << >>
    /\ tmpDir = << >>
    /\ mergedDir \in {"absent", "reports"}
    /\ activeChild = "null"
    /\ child = NoChild
    /\ isCancelling = FALSE
    /\ pending = {}
    /\ handled = "none"
    /\ exitCode = 0

\* the process receives a signal; its handler is run by the event loop, later
SignalArrives ==
    /\ mpc \notin {"idle", "exited"}
    /\ \E signal \in Signals \ pending : pending' = pending \cup {signal}
    /\ UNCHANGED <<passVars, options, asideMerge, mpc, v8CoverageFiles, tmpDir,
                   mergedDir, activeChild, child, isCancelling, handled, exitCode>>

\* the event loop can run a signal handler here
AtEventLoop ==
    \/ mpc = "normalize" /\ pc = "await"
    \/ mpc = "child"

\* lines 25-32: handleTermination(signal), run by the event loop
HandleTermination ==
    /\ AtEventLoop
    /\ \E signal \in pending :
         /\ handled' = signal
         /\ isCancelling' = TRUE
         /\ IF activeChild # "null" /\ child.pid
            THEN child' = [child EXCEPT !.signal = signal]
            ELSE UNCHANGED child
         /\ exitCode' = exitCodeForSignal(signal)
    /\ mpc' = "exited"
    /\ UNCHANGED <<passVars, options, asideMerge, v8CoverageFiles, tmpDir, mergedDir,
                   activeChild, pending>>

\* lines 44-57: the old output is removed and normalizeV8Coverage is called
Prologue ==
    /\ mpc = "boot"
    /\ tree' = rmSync(rmSync(tree, "merged"), ".v8-tmp")
    /\ disk' = [f \in AllJsonFiles(tree') |-> disk[f]]
    /\ disk0' = [f \in AllJsonFiles(tree') |-> disk0[f]]
    /\ writes' = [f \in AllJsonFiles(tree') |-> writes[f]]
    /\ mergedDir' = "absent"
    /\ procEnv' = driverDefault(procEnv)
    /\ options' = [maxScan |-> scanLimitOf(procEnv')]
    /\ pc' = "start"
    /\ mpc' = "normalize"
    /\ UNCHANGED <<jsonFiles, fileIdx, entryIdx, blockIdx, rangeIdx, data, updated,
                   sourceCache, consumers, genKind, error, reads, builds, changedIn,
                   usedDead, last, asidePrograms, userEnv, v8CoverageFiles, tmpDir,
                   activeChild,
                   child, isCancelling, pending, handled, exitCode>>

\* a step of the pass the driver awaits
NormalizeV8Coverage ==
    /\ mpc = "normalize"
    /\ Next

\* line 57 when the pass returns
NormalizeReturns ==
    /\ mpc = "normalize"
    /\ Returned
    /\ mpc' = "collect"
    /\ UNCHANGED <<passVars, options, asideMerge, v8CoverageFiles, tmpDir, mergedDir,
                   activeChild, child, isCancelling, pending, handled, exitCode>>

\* line 57 with the rejection caught and dropped: the driver goes on to collect
NormalizeRejects_goesOn ==
    /\ mpc = "normalize"
    /\ Thrown
    /\ mpc' = "collect"
    /\ UNCHANGED <<passVars, options, asideMerge, v8CoverageFiles, tmpDir, mergedDir,
                   activeChild, child, isCancelling, pending, handled, exitCode>>

\* line 57 when the pass throws: nothing catches the rejection of the top-level
\* await and the process exits with status 1
NormalizeRejects ==
    /\ mpc = "normalize"
    /\ Thrown
    /\ exitCode' = 1
    /\ mpc' = "exited"
    /\ UNCHANGED <<passVars, options, asideMerge, v8CoverageFiles, tmpDir, mergedDir,
                   activeChild, child, isCancelling, pending, handled>>

\* lines 90-95: collect the coverage files; without any, exit with status 0
Collect ==
    /\ mpc = "collect"
    /\ v8CoverageFiles' = collectV8CoverageFiles(tree, disk)
    /\ IF v8CoverageFiles' = << >>
       THEN exitCode' = 0 /\ mpc' = "exited"
       ELSE mpc' = "copy" /\ UNCHANGED exitCode
    /\ UNCHANGED <<passVars, options, asideMerge, tmpDir, mergedDir, activeChild,
                   child, isCancelling, pending, handled>>

\* lines 97-104: coverage/merged is created and the files are copied to
\* coverage/.v8-tmp/coverage-<index>.json
Copy ==
    /\ mpc = "copy"
    /\ mergedDir' = "empty"
    /\ tmpDir' = [i \in DOMAIN v8CoverageFiles |-> disk[v8CoverageFiles[i]]]
    /\ mpc' = "spawn"
    /\ UNCHANGED <<passVars, options, asideMerge, v8CoverageFiles, activeChild,
                   child, isCancelling, pending, handled, exitCode>>

\* lines 150-155: spawn("pnpm", args); a child that could not be spawned has no
\* pid
Spawn ==
    /\ mpc = "spawn"
    /\ \E pid \in BOOLEAN :
         child' = [state |-> "running", pid |-> pid, signal |-> "none",
                   code |-> NoExitCode, status |-> 0]
    /\ activeChild' = "child"
    /\ mpc' = "child"
    /\ UNCHANGED <<passVars, options, asideMerge, v8CoverageFiles, tmpDir, mergedDir,
                   isCancelling, pending, handled, exitCode>>

\* lines 166-169: child.once("error"): the child could not be spawned
ChildError ==
    /\ mpc = "child"
    /\ ~child.pid
    /\ activeChild' = "null"
    /\ child' = [child EXCEPT !.state = "closed", !.status = 1]
    /\ mpc' = "settled"
    /\ UNCHANGED <<passVars, options, asideMerge, v8CoverageFiles, tmpDir, mergedDir,
                   isCancelling, pending, handled, exitCode>>

\* code ?? 1
orOne(code) == IF code = NoExitCode THEN 1 ELSE code

\* lines 170-181: child.once("close"): resolve(code ?? 1); the summary is
\* written when c8 printed one
ChildClose ==
    /\ mpc = "child"
    /\ child.pid
    /\ \E code \in {0, 1, NoExitCode} :
         child' = [child EXCEPT !.state = "closed", !.code = code,
                                !.status = orOne(code)]
    /\ activeChild' = "null"
    /\ mergedDir' = "reports"
    /\ mpc' = "settled"
    /\ UNCHANGED <<passVars, options, asideMerge, v8CoverageFiles, tmpDir,
                   isCancelling, pending, handled, exitCode>>

\* lines 186-195: process.exit(status), or process.exit(1) in the catch block
Exit ==
    /\ mpc = "settled"
    /\ exitCode' = child.status
    /\ mpc' = "exited"
    /\ UNCHANGED <<passVars, options, asideMerge, v8CoverageFiles, tmpDir, mergedDir,
                   activeChild, child, isCancelling, pending, handled>>

MergeNext ==
    \/ SignalArrives
    \/ HandleTermination
    \/ Prologue
    \/ NormalizeV8Coverage
    \/ NormalizeReturns
    \/ NormalizeRejects
    \/ Collect
    \/ Copy
    \/ Spawn
    \/ ChildError
    \/ ChildClose
    \/ Exit

MergeSpec == MergeInit /\ [][MergeNext]_vars

(***************************************************************************)
(* Statements about normalizeRange (checked under RangeSpec).              *)
(***************************************************************************)
Called == rCalls > 0
BothFound == rResult.startMapping.found /\ rResult.endMapping.found

\* C1: a range with endOffset <= startOffset comes back from normalizeRange with
\* the same startOffset, endOffset and count, and the call returns false,
\* whatever the source map and the scan budget are.
C1_DegenerateUntouched ==
    (Called /\ rBefore.endOffset <= rBefore.startOffset)
        => (rRange = rBefore /\ ~rResult.changed)

\* C1 witness: a zero-count empty range was normalized against a map that has a
\* segment with an original position (so a full-line expansion exists for it)
C1_Witness ==
    /\ rCalls = 1
    /\ rBefore.endOffset = rBefore.startOffset
    /\ rBefore.count = 0
    /\ \E m \in rCtx.consumer.segs : m.src # NoSource

\* C5: normalizeRange writes offsets into the range only when the computed pair
\* differs from the range's pair and has endOffset > startOffset, and what it
\* writes is the computed pair; so a range with endOffset > startOffset keeps
\* endOffset > startOffset.
C5_WriteBackValid ==
    Called =>
        /\ rResult.changed =>
             /\ rRange.startOffset = rResult.startOffset
             /\ rRange.endOffset = rResult.endOffset
             /\ rRange.endOffset > rRange.startOffset
             /\ (rRange.startOffset # rBefore.startOffset
                 \/ rRange.endOffset # rBefore.endOffset)
        /\ ~rResult.changed => rRange = rBefore
        /\ rRange.count = rBefore.count
        /\ (rBefore.endOffset > rBefore.startOffset
              => rRange.endOffset > rRange.startOffset)

\* C5 witness: both ends of a non-empty range were mapped and the computed pair
\* is empty or inverted, so the write-back was refused
C5_Witness ==
    /\ rCalls = 1
    /\ rBefore.endOffset > rBefore.startOffset
    /\ BothFound
    /\ rResult.endOffset <= rResult.startOffset
    /\ rRange = rBefore

\* C8: with a scan budget of 0 findMappedStart hands only the position of
\* startOffset to the consumer and findMappedEnd only that of endOffset.
C8_NoScanAtBudgetZero ==
    (Called /\ options.maxScan = 0) =>
        /\ rResult.startMapping.probes \subseteq {rBefore.startOffset}
        /\ rResult.endMapping.probes \subseteq {rBefore.endOffset}

\* C8 witness: budget 0, the direct lookup at the start of a range of two or more
\* offsets found no source although the next offset has one
C8_Witness ==
    /\ rCalls = 1
    /\ options.maxScan = 0
    /\ rBefore.endOffset > rBefore.startOffset + 1
    /\ ~rResult.startMapping.found
    /\ lookupStart(rCtx, rBefore.startOffset + 1).source # NoSource

\* the segment whose statement holds a generated offset: the last segment at or
\* before the offset's position, if it is on the offset's line
statementAt(ctx, off) ==
    LET pos == offsetToLineCol(ctx.lineStarts, off)
        before == {m \in ctx.consumer.segs : GenLeq(m.gl, m.gc, pos.line, pos.column)}
    IN  {m \in before : m.gl = pos.line
                        /\ \A y \in before : GenLeq(y.gl, y.gc, m.gl, m.gc)}

\* every offset of the range lies in the statement of one segment that has an
\* original position
InsideOneStatement(ctx, range) ==
    /\ range.endOffset > range.startOffset
    /\ \E m \in ctx.consumer.segs :
         /\ m.src # NoSource
         /\ \A o \in range.startOffset..(range.endOffset - 1) :
              statementAt(ctx, o) = {m}

\* C6: for a range that lies inside a single mapped statement, normalizeRange
\* applied to its own output returns false and leaves the range as it is, so a
\* second run over an already normalised file changes no range.
C6_SecondRunChangesNothing ==
    (rCalls = 2 /\ InsideOneStatement(rCtx, rGiven))
        => (~rResult.changed /\ rRange = rBefore /\ rBefore = rFirst.range)

\* C6 witness: the first call changed a zero-count range inside one statement
\* and the second call has run on the result
C6_Witness ==
    /\ rCalls = 2
    /\ InsideOneStatement(rCtx, rGiven)
    /\ rGiven.count = 0
    /\ rFirst.changed

\* the original lines a result maps its range to: the source of the start
\* mapping, the lines from the start mapping's to the end mapping's
MappedLines(result) ==
    {<<result.startMapping.mapped.source, l>> :
        l \in result.startMapping.mapped.line..result.endMapping.mapped.line}

\* C7: a zero-count range whose two ends map into the original source
\* is normalised to a range whose two ends map as well, and the original lines
\* the new range maps to include every original line the given range mapped to.
C7_ZeroCountOnlyWidens ==
    (rCalls = 2 /\ rGiven.count = 0
       /\ rFirst.startMapping.found /\ rFirst.endMapping.found)
        => /\ rResult.startMapping.found
           /\ rResult.endMapping.found
           /\ MappedLines(rFirst) \subseteq MappedLines(rResult)

\* C7 witness: a zero-count range mapped to part of one original line was widened
\* at both ends, and the widened range has been mapped again
C7_Witness ==
    /\ rCalls = 2
    /\ rGiven.count = 0
    /\ rFirst.startMapping.found /\ rFirst.endMapping.found
    /\ rFirst.startMapping.mapped.line = rFirst.endMapping.mapped.line
    /\ rFirst.range.startOffset < rGiven.startOffset
    /\ rFirst.range.endOffset > rGiven.endOffset

(***************************************************************************)
(* Statements about a pass of normalizeCoverageDir (checked under Spec).   *)
(***************************************************************************)
\* the kinds of generated file for which readSourceMap returns null
NoMapKinds == {k \in GenKinds : readSourceMap(k) = "null"}

InFile == pc \in {"entry", "await", "range", "write"}

HasNoMap(e) == jsPathOf(e) # NoPath /\ genKind[jsPathOf(e)] \in NoMapKinds

\* C2 (state part): an entry whose path has no discoverable source map has, in
\* memory and on disk, the ranges the file held when it was read, and no error
\* of the pass comes from resolving such an entry
C2_NoMapEntryUntouched ==
    /\ InFile =>
         \A i \in DOMAIN data.result :
            HasNoMap(data.result[i]) => data.result[i] = disk0[file].result[i]
    /\ \A f \in DOMAIN disk :
         (disk[f].kind = "coverage" /\ disk0[f].kind = "coverage") =>
            \A i \in DOMAIN disk[f].result :
               HasNoMap(disk[f].result[i]) => disk[f].result[i] = disk0[f].result[i]
    /\ error \in {"map", "consumer"} => ~HasNoMap(entry)

\* C2 (step part): the step that resolves such an entry changes no range, throws
\* nothing, and leaves the pass at the next entry of the same file
C2_NoMapEntrySkipped ==
    (pc = "entry" /\ entryIdx <= Len(data.result)
       /\ jsPathOf(entry) # NoPath
       /\ genKind'[jsPathOf(entry)] \in NoMapKinds)
        => /\ pc' = "entry"
           /\ entryIdx' = entryIdx + 1
           /\ fileIdx' = fileIdx
           /\ data' = data
           /\ error' = "none"
           /\ sourceCache'[jsPathOf(entry)] = "null"

\* C2: when the generated file of an entry has no discoverable source map (the
\* file is missing, has no sourceMappingURL comment, or names a sidecar file
\* that does not exist), the pass leaves every range of the entry as it was,
\* throws nothing, and goes on to the next entry.
C2_NoSourceMapIsNoError ==
    []C2_NoMapEntryUntouched /\ [][C2_NoMapEntrySkipped]_vars

\* C2 witness: the first entry of a file has functions and a path without a
\* source map, and the pass is at the second entry
C2_Witness ==
    /\ pc = "entry"
    /\ entryIdx = 2
    /\ error = "none"
    /\ data.result[1].hasFunctions
    /\ HasNoMap(data.result[1])
    /\ sourceCache[jsPathOf(data.result[1])] = "null"

Completed(f) == \E i \in 1..(fileIdx - 1) : i <= Len(jsonFiles) /\ jsonFiles[i] = f

\* C3 as stated: when the pass is over, a file has been rewritten if and only
\* if one of its ranges changed during the pass
C3_RewrittenIffChanged ==
    pc = "done" => \A f \in DOMAIN disk : (writes[f] > 0 <=> f \in changedIn)

\* C3 (amended): a file is written only if one of its ranges changed during the
\* pass, and then once; a file none of whose ranges changed is never written and
\* holds the text it held when it was read; a file with a changed range has been
\* written once the pass has gone on to the next file, so that after a pass that
\* returns a file has been rewritten if and only if one of its ranges changed.
C3_RewrittenIffChangedAndCompleted ==
    \A f \in DOMAIN disk :
        /\ writes[f] > 0 => (f \in changedIn /\ writes[f] = 1
                             /\ disk[f].kind = "coverage")
        /\ f \notin changedIn => (writes[f] = 0 /\ disk[f] = disk0[f])
        /\ (f \in changedIn /\ Completed(f)) => writes[f] = 1
        /\ Returned => (writes[f] > 0 <=> f \in changedIn)

\* C3 witness: a pass returned after writing one file and leaving alone another
\* file that has ranges
C3_Witness ==
    /\ Returned
    /\ \E f, g \in DOMAIN disk :
         /\ writes[f] = 1 /\ disk[f] # disk0[f]
         /\ writes[g] = 0 /\ disk[g] = disk0[g]
         /\ \E i \in DOMAIN disk0[g].result : disk0[g].result[i].hasFunctions

\* the step of C4: a non-empty range whose start or end mapping was not found
\* has just been handled
C4_Step ==
    (pc = "range" /\ rangeIdx' = rangeIdx + 1
       /\ ~isDegenerate(last'.given)
       /\ (~last'.result.startMapping.found \/ ~last'.result.endMapping.found))
        => /\ data' = data
           /\ updated' = updated
           /\ changedIn' = changedIn
           /\ disk' = disk
           /\ error' = "none"
           /\ pc' = "range"
           /\ fileIdx' = fileIdx /\ entryIdx' = entryIdx /\ blockIdx' = blockIdx

\* C4: when no offset inside the scan window of a range maps into the original
\* source, at its start or at its end, the step that handles the range changes
\* no range of the file, sets no flag, throws nothing, and leaves the pass at
\* the next range of the same block.
C4_UnmappableRangeSkipped == [][C4_Step]_vars

\* C4 witness: a range that could not be mapped was left as it was and the range
\* after it in the same block has been normalised
C4_Witness ==
    /\ pc = "range"
    /\ last.range = 2
    /\ last.result.changed
    /\ LET ranges == data.result[last.entry].functions[last.block].ranges
       IN  /\ ~isDegenerate(ranges[1])
           /\ ~normalizeRange(ranges[1], contextOf(jsPathOf(entry)), options)
                 .startMapping.found
           /\ ranges[1] = disk0[file].result[last.entry].functions[last.block].ranges[1]

\* C9: when the pass has returned or thrown, no SourceMapConsumer it built is
\* still live, and no consumer is handed to normalizeRange unless it is live.
C9_ConsumersDestroyed ==
    /\ pc = "done" => \A p \in JsPaths : consumers[p] # "live"
    /\ \A p \in JsPaths : builds[p] > 0 <=> consumers[p] # "none"
    /\ pc = "range" => consumers[jsPathOf(entry)] = "live"
    /\ ~usedDead

\* C9 witness: the pass threw after a consumer was built, and the consumer is
\* destroyed
C9_Witness ==
    /\ Thrown
    /\ \E p \in JsPaths : builds[p] = 1 /\ consumers[p] = "destroyed"

\* C10: within a pass readSourceMap is called at most once for a path and at
\* most one consumer is built for it; a path found to have no source map is
\* remembered as such, and a path with a consumer keeps it.
C10_ResolvedOnce ==
    \A p \in JsPaths :
        /\ reads[p] <= 1
        /\ builds[p] <= 1
        /\ (reads[p] = 1 /\ genKind[p] \in NoMapKinds) => sourceCache[p] = "null"
        /\ sourceCache[p] = "ctx" <=> builds[p] = 1
        /\ sourceCache[p] # "undefined" => reads[p] = 1

\* C10 witness: two entries of one file name the same path, the path has no
\* source map, and both entries are behind the pass
C10_Witness ==
    /\ pc = "entry"
    /\ entryIdx = 3
    /\ jsPathOf(data.result[1]) = jsPathOf(data.result[2])
    /\ jsPathOf(data.result[1]) # NoPath
    /\ sourceCache[jsPathOf(data.result[1])] = "null"
    /\ reads[jsPathOf(data.result[1])] = 1

\* C11 as stated: a coverage file that does not parse is skipped; the pass
\* throws no parse error for it, and when the pass is over every file after it
\* in the list has been read
C11_MalformedFileSkipped ==
    /\ error # "json"
    /\ pc = "done" =>
         \A i, j \in DOMAIN jsonFiles :
             (i < j /\ disk0[jsonFiles[i]].kind = "malformed")
                 => disk0[jsonFiles[j]] # Unread

\* C11 witness: the pass is over, the first of two files did not parse and the
\* second was never read
C11_Witness ==
    /\ Thrown
    /\ error = "json"
    /\ Len(jsonFiles) = 2
    /\ disk0[jsonFiles[1]].kind = "malformed"
    /\ disk0[jsonFiles[2]] = Unread

\* the state part of C12: after an error the pass only runs its finally block;
\* a file behind the failing one that was rewritten holds the rewritten text,
\* and a file after the failing one has been neither read nor written
C12_State ==
    error # "none" =>
        /\ pc \in {"finally", "done"}
        /\ fileIdx \in DOMAIN jsonFiles
        /\ \A i \in DOMAIN jsonFiles :
             /\ (i < fileIdx /\ writes[jsonFiles[i]] > 0)
                   => /\ disk[jsonFiles[i]].form = "compact"
                      /\ disk[jsonFiles[i]].kind = "coverage"
                      /\ disk[jsonFiles[i]] # disk0[jsonFiles[i]]
             /\ i > fileIdx
                   => /\ disk[jsonFiles[i]] = Unread
                      /\ disk0[jsonFiles[i]] = Unread
                      /\ writes[jsonFiles[i]] = 0

\* the step part of C12: an error is never cleared, nothing is written once it
\* is raised, and a file the pass has left behind is never written again
C12_Step ==
    /\ error # "none" => (error' = error /\ disk' = disk /\ writes' = writes)
    /\ \A f \in DOMAIN disk : Completed(f) => disk'[f] = disk[f]

\* C12: when a pass fails partway through the file list, the error reaches the
\* caller (the pass ends thrown, with that error), every file rewritten before
\* the failure keeps its rewritten text, and every file after the failing one
\* is left unread and unwritten.
C12_FailureKeepsRewrites ==
    /\ []C12_State
    /\ [][C12_Step]_vars
    /\ [](pc = "done" => (Thrown <=> error # "none"))

\* C12 witness: the pass threw at the second of two files after it had
\* rewritten the first
C12_Witness ==
    /\ Thrown
    /\ Len(jsonFiles) = 2
    /\ fileIdx = 2
    /\ writes[jsonFiles[1]] = 1
    /\ disk[jsonFiles[1]] # disk0[jsonFiles[1]]

\* the state part of C14: an entry whose url gives no path is, in memory and on
\* disk, the entry that was read
C14_State ==
    /\ \A u \in IgnoredUrls : jsPathOf([url |-> u]) = NoPath
    /\ InFile =>
         \A i \in DOMAIN data.result :
             jsPathOf(data.result[i]) = NoPath
                 => data.result[i] = disk0[file].result[i]
    /\ \A f \in DOMAIN disk :
         \A i \in DOMAIN disk[f].result :
             jsPathOf(disk[f].result[i]) = NoPath
                 => disk[f].result[i] = disk0[f].result[i]

\* the step part of C14: the step that handles such an entry looks up no source
\* map, builds no consumer, changes no range and goes on to the next entry
C14_Step ==
    (pc = "entry" /\ entryIdx <= Len(data.result) /\ jsPathOf(entry) = NoPath)
        => /\ reads' = reads
           /\ genKind' = genKind
           /\ sourceCache' = sourceCache
           /\ builds' = builds
           /\ data' = data
           /\ updated' = updated
           /\ error' = error
           /\ pc' = "entry"
           /\ entryIdx' = entryIdx + 1

\* C14: an entry whose url is empty, a node: url, a file: url that cannot be
\* converted to a path, or a name that is no absolute path is ignored: no source
\* map is looked up for it and all of its ranges stay as they were read.
C14_IgnoredUrlUntouched == []C14_State /\ [][C14_Step]_vars

\* C14 witness: the pass is behind the four entries of a file each of which has
\* one of the four kinds of ignored url, and no source map has been looked up
C14_Witness ==
    /\ pc = "entry"
    /\ entryIdx = 5
    /\ { data.result[i].url : i \in 1..4 } = IgnoredUrls
    /\ data.result = disk0[file].result
    /\ \A p \in JsPaths : reads[p] = 0

\* C18: for a non-empty range [startOffset, endOffset), findMappedStart probes
\* startOffset and then only offsets up to min(endOffset, startOffset + maxScan),
\* findMappedEnd probes endOffset and then only offsets down to
\* max(startOffset, endOffset - maxScan); each probes at most
\* min(maxScan, endOffset - startOffset) offsets beyond the direct lookup, one
\* after the other, and a mapping it returns is at an offset it probed.
C18_ScanBounded ==
    (Called /\ ~isDegenerate(rBefore)) =>
        /\ rBefore.startOffset \in rResult.startMapping.probes
        /\ rResult.startMapping.probes \subseteq
              rBefore.startOffset ..
                Min2(rBefore.endOffset, rBefore.startOffset + options.maxScan)
        /\ Cardinality(rResult.startMapping.probes \ {rBefore.startOffset})
              <= Min2(options.maxScan, rBefore.endOffset - rBefore.startOffset)
        /\ \A o \in rResult.startMapping.probes :
              rBefore.startOffset .. o \subseteq rResult.startMapping.probes
        /\ rResult.startMapping.found
              => rResult.startMapping.offset \in rResult.startMapping.probes
        /\ ~rResult.startMapping.found => rResult.endMapping.probes = {}
        /\ rResult.startMapping.found =>
              /\ rBefore.endOffset \in rResult.endMapping.probes
              /\ rResult.endMapping.probes \subseteq
                    Max2(rBefore.startOffset, rBefore.endOffset - options.maxScan)
                      .. rBefore.endOffset
              /\ Cardinality(rResult.endMapping.probes \ {rBefore.endOffset})
                    <= Min2(options.maxScan,
                            rBefore.endOffset - rBefore.startOffset)
              /\ \A o \in rResult.endMapping.probes :
                    o .. rBefore.endOffset \subseteq rResult.endMapping.probes
              /\ rResult.endMapping.found
                    => rResult.endMapping.offset \in rResult.endMapping.probes

\* C18 witness: the budget is shorter than the range; the backward scan used
\* all of it and gave up one offset short of the start of the range, which maps
\* into the start's source
C18_Witness ==
    /\ rCalls = 1
    /\ options.maxScan = MaxLen - 1
    /\ rBefore.endOffset - rBefore.startOffset = MaxLen
    /\ rResult.startMapping.found
    /\ ~rResult.endMapping.found
    /\ rResult.endMapping.probes
          = (rBefore.endOffset - options.maxScan) .. rBefore.endOffset
    /\ \E bias \in {GREATEST_LOWER_BOUND, LEAST_UPPER_BOUND} :
          originalPositionFor(rCtx.consumer,
              offsetToLineCol(rCtx.lineStarts, rBefore.startOffset).line,
              offsetToLineCol(rCtx.lineStarts, rBefore.startOffset).column,
              bias).source = rResult.startMapping.mapped.source

\* the offsets findMappedEnd may probe for the range it was given
EndWindow ==
    Max2(rBefore.startOffset, rBefore.endOffset - options.maxScan)
        .. rBefore.endOffset

\* some lookup at a generated offset, with either bias, resolves to the source
MapsInto(ctx, off, source) ==
    \E bias \in {GREATEST_LOWER_BOUND, LEAST_UPPER_BOUND} :
        mapOriginalPosition(ctx.consumer,
            offsetToLineCol(ctx.lineStarts, off).line,
            offsetToLineCol(ctx.lineStarts, off).column, bias).source = source

\* C19: a mapping findMappedEnd returns has the source of the start mapping,
\* whether it comes from the direct lookup or from a scanned offset, so a range
\* normalizeRange changes has both ends in one original source; findMappedEnd
\* returns null, and the range stays as it is, exactly when no offset of the
\* scan window maps into the start's source.
C19_EndInStartSource ==
    (Called /\ rResult.startMapping.found) =>
        /\ rResult.startMapping.mapped.source \in Sources
        /\ rResult.endMapping.found
              => /\ rResult.endMapping.mapped.source
                      = rResult.startMapping.mapped.source
                 /\ MapsInto(rCtx, rResult.endMapping.offset,
                             rResult.startMapping.mapped.source)
        /\ rResult.changed => rResult.endMapping.found
        /\ ~rResult.endMapping.found
              <=> \A o \in EndWindow :
                     ~MapsInto(rCtx, o, rResult.startMapping.mapped.source)
        /\ ~rResult.endMapping.found
              => (rRange = rBefore /\ ~rResult.changed)

\* C19 witness: the range was changed although the lower-bound lookup at its end
\* resolves to another source than the start mapping's; the end mapping comes
\* from a scanned offset
C19_Witness ==
    /\ rCalls = 1
    /\ rResult.changed
    /\ rResult.endMapping.offset < rBefore.endOffset
    /\ mapOriginalPosition(rCtx.consumer,
           offsetToLineCol(rCtx.lineStarts, rBefore.endOffset).line,
           offsetToLineCol(rCtx.lineStarts, rBefore.endOffset).column,
           GREATEST_LOWER_BOUND).source
         \in Sources \ {rResult.startMapping.mapped.source}

\* the generated offset of the start of the start mapping's original line
\* (lines 310-328); -1 when generatedPositionFor finds nothing
expandedStart(ctx, startMapping) ==
    LET genStart == generatedPositionFor(ctx.consumer, startMapping.mapped.source,
                        startMapping.mapped.line, 0, LEAST_UPPER_BOUND)
    IN  IF genStart.line = 0 THEN -1
        ELSE lineColToOffset(ctx.lineStarts, genStart.line, genStart.column,
                             ctx.sourceLength)

\* the generated offset of the end of the end mapping's original line
\* (lines 316-334); -1 when generatedPositionFor finds nothing
expandedEnd(ctx, startMapping, endMapping) ==
    LET genEnd == generatedPositionFor(ctx.consumer, startMapping.mapped.source,
                      endMapping.mapped.line, MAX_SAFE_INTEGER,
                      GREATEST_LOWER_BOUND)
    IN  IF genEnd.line = 0 THEN -1
        ELSE lineColToOffset(ctx.lineStarts, genEnd.line, genEnd.column,
                             ctx.sourceLength)

\* C20: for a zero-count range with both mappings found, the start offset
\* normalizeRange computes, and the one the range holds afterwards, is at or
\* before the offset findMappedStart found, and the end offset is at or after
\* the offset findMappedEnd found, whatever the reverse mapping gives.
C20_ExpansionNeverShrinks ==
    (Called /\ BothFound /\ rBefore.count = 0) =>
        /\ rResult.startOffset <= rResult.startMapping.offset
        /\ rResult.endOffset >= rResult.endMapping.offset
        /\ rRange.startOffset <= rResult.startMapping.offset
        /\ rRange.endOffset >= rResult.endMapping.offset

\* C20 witness: a zero-count range whose reverse mapping gives a start after the
\* mapped start and an end before the mapped end; the mapped offsets are kept
C20_Witness ==
    /\ rCalls = 1
    /\ BothFound
    /\ rBefore.count = 0
    /\ expandedStart(rCtx, rResult.startMapping) > rResult.startMapping.offset
    /\ expandedEnd(rCtx, rResult.startMapping, rResult.endMapping) >= 0
    /\ expandedEnd(rCtx, rResult.startMapping, rResult.endMapping)
          < rResult.endMapping.offset
    /\ rResult.startOffset = rResult.startMapping.offset
    /\ rResult.endOffset = rResult.endMapping.offset

\* C16: in the fixture file, whose source map maps the second statement column
\* for column to original line 2, normalizing the range [11, 21) with count 0
\* leaves it at [11, 21): the offsets of the whole second line of the generated
\* file, both ends mapped into original line 2, and every offset of the range
\* mapping into that line.
C16_FixtureFullLine ==
    (rCalls = 1 /\ rGiven = FixtureRange) =>
        /\ FixtureRange = [startOffset |-> 11, endOffset |-> 21, count |-> 0]
        /\ rRange = [startOffset |-> 11, endOffset |-> 21, count |-> 0]
        /\ rResult.startOffset = 11
        /\ rResult.endOffset = 21
        /\ BothFound
        /\ rResult.startMapping.mapped.source = FixtureSource
        /\ rResult.startMapping.mapped.line = 2
        /\ rResult.endMapping.mapped.line = 2
        /\ offsetToLineCol(rCtx.lineStarts, rRange.startOffset)
              = [line |-> 2, column |-> 0]
        /\ rRange.endOffset = rCtx.sourceLength
        /\ \A o \in rRange.startOffset .. (rRange.endOffset - 1) :
              \E bias \in {GREATEST_LOWER_BOUND, LEAST_UPPER_BOUND} :
                  mapOriginalPosition(rCtx.consumer,
                      offsetToLineCol(rCtx.lineStarts, o).line,
                      offsetToLineCol(rCtx.lineStarts, o).column, bias).line = 2

\* C16 witness: the fixture range was normalized against the map that has one
\* segment, at the start of the second statement, and the first statement
\* mapped as well
C16_Witness ==
    /\ rCalls = 1
    /\ rGiven = FixtureRange
    /\ rCtx.consumer.segs = {FixtureSegment(1, 0), FixtureSegment(2, 0)}
    /\ rRange = rGiven

(***************************************************************************)
(* KeepAliveSpec: one case of tests/integration/keep-alive.spec.ts.  The   *)
(* case spawns a child that starts a browser, makes the child exit in the  *)
(* way the scenario says, and then polls the browser: a case that expects  *)
(* it open polls for STAY_OPEN_MS, a case that expects it closed polls     *)
(* until it is found closed or the timeout is over.  Time is counted in    *)
(* units of 500 ms; a liveness check is a network request and takes time.  *)
(***************************************************************************)
\* the longest stay-open window and close timeout, in units of 500 ms (the
\* environment sets them: KEEP_ALIVE_STAY_OPEN_MS, KEEP_ALIVE_LOCAL_TIMEOUT_MS,
\* KEEP_ALIVE_BB_TIMEOUT_MS)
MaxWindow == 3

\* the longest a liveness check takes, in units of 500 ms
MaxCheckTicks == 2

ScenarioKinds == <<"unhandled", "close", "sigterm", "sigint">>

KeepAliveValues == <<TRUE, FALSE>>

\* lines 527-555
environments(testEnv) ==
    IF testEnv = "BROWSERBASE"
    THEN << [env |-> "BROWSERBASE", label |-> "bb direct ws", disableAPI |-> TRUE,
             requiresBrowserbase |-> TRUE],
            [env |-> "BROWSERBASE", label |-> "bb via api", disableAPI |-> FALSE,
             requiresBrowserbase |-> TRUE] >>
    ELSE << [env |-> "LOCAL", label |-> "local", disableAPI |-> FALSE,
             requiresBrowserbase |-> FALSE] >>

\* the case pushed for (keepAlive, envConfig, scenario), lines 562-570
keepAliveCase(keepAlive, envConfig, kind) ==
    [env |-> envConfig.env, envLabel |-> envConfig.label, keepAlive |-> keepAlive,
     disableAPI |-> envConfig.disableAPI, kind |-> kind,
     requiresBrowserbase |-> envConfig.requiresBrowserbase]

\* the three nested loops of buildKeepAliveCases, in the order of the pushes
buildKeepAliveCases(testEnv) ==
    [n \in 1..(Len(KeepAliveValues) * Len(environments(testEnv))
                 * Len(ScenarioKinds)) |->
        keepAliveCase(
            KeepAliveValues[((n - 1) \div (Len(environments(testEnv))
                                            * Len(ScenarioKinds))) + 1],
            environments(testEnv)[(((n - 1) \div Len(ScenarioKinds))
                                     % Len(environments(testEnv))) + 1],
            ScenarioKinds[((n - 1) % Len(ScenarioKinds)) + 1])]

\* intervalMs: 500 ms for the local browser, 1000 ms for Browserbase
intervalOf(env) == IF env = "LOCAL" THEN 1 ELSE 2

\* waitForClosed returns instead of throwing when the timeout is over
onDeadline_returns(keepAlive) == "passed"

\* the loop condition fails: assertStaysOpen returns (line 363), waitForClosed
\* throws `Browser still alive` (line 382)
onDeadline(keepAlive) == IF keepAlive THEN "passed" ELSE "failed"

\* what the loop does with the result of a check: assertStaysOpen throws when
\* the browser is not alive (line 354), waitForClosed returns (line 376); both
\* sleep otherwise
afterCheck(keepAlive, alive) ==
    IF alive THEN "sleep"
    ELSE IF keepAlive THEN "failed" ELSE "passed"

KeepAliveInit ==
    /\ NoPass
    /\ options = [maxScan |-> DefaultMaxScan]
    /\ NoRangeRun
    /\ NoMerge
    /\ NoLine
    /\ NoEnv
    /\ NoScripts
    /\ kpc = "start"
    /\ \E testEnv \in {"LOCAL", "BROWSERBASE"} :
         \E n \in DOMAIN buildKeepAliveCases(testEnv) :
            testCase = buildKeepAliveCases(testEnv)[n]
    /\ windowMs \in 0..MaxWindow
    /\ elapsed = 0
    /\ begun = 0
    /\ checks = << >>
    /\ outcome = "running"

\* lines 668-670: a Browserbase case is skipped without credentials
SkipCase ==
    /\ kpc = "start"
    /\ testCase.requiresBrowserbase
    /\ outcome' = "skipped"
    /\ kpc' = "done"
    /\ UNCHANGED <<testCase, windowMs, elapsed, begun, checks, asideKeepAlive>>

\* lines 588-597: the child is spawned and its info awaited
RunScenario ==
    /\ kpc = "start"
    /\ kpc' = "scenario"
    /\ UNCHANGED <<testCase, windowMs, elapsed, begun, checks, outcome,
                   asideKeepAlive>>

\* lines 598-607: the child gave no info (timeout, exit, spawn error)
ScenarioFails ==
    /\ kpc = "scenario"
    /\ outcome' = "failed"
    /\ kpc' = "done"
    /\ UNCHANGED <<testCase, windowMs, elapsed, begun, checks, asideKeepAlive>>

\* lines 609-625: the child is signalled if the scenario says so, and its exit
\* is awaited for at most ACTION_EXIT_TIMEOUT_MS
ScenarioInfo ==
    /\ kpc = "scenario"
    /\ kpc' = "exit"
    /\ UNCHANGED <<testCase, windowMs, elapsed, begun, checks, outcome,
                   asideKeepAlive>>

\* lines 626, 392-423: assertBrowserState; a Browserbase case without a session
\* id throws
EnterAssert ==
    /\ kpc = "exit"
    /\ \E hasSessionId \in BOOLEAN :
         IF testCase.env = "BROWSERBASE" /\ ~hasSessionId
         THEN outcome' = "failed" /\ kpc' = "finally"
         ELSE kpc' = "loop" /\ UNCHANGED outcome
    /\ elapsed' = 0
    /\ UNCHANGED <<testCase, windowMs, begun, checks, asideKeepAlive>>

\* while (Date.now() < deadline) / while (Date.now() - start < timeoutMs)
BeginCheck ==
    /\ kpc = "loop"
    /\ elapsed < windowMs
    /\ begun' = elapsed
    /\ kpc' = "check"
    /\ UNCHANGED <<testCase, windowMs, elapsed, checks, outcome, asideKeepAlive>>

\* `await check()` is over: the check took some time and reports alive or not
EndCheck ==
    /\ kpc = "check"
    /\ \E alive \in BOOLEAN, took \in 0..MaxCheckTicks :
         /\ elapsed' = elapsed + took
         /\ checks' = Append(checks, [begun |-> begun, reported |-> elapsed',
                                      alive |-> alive])
         /\ IF afterCheck(testCase.keepAlive, alive) = "sleep"
            THEN kpc' = "sleep" /\ UNCHANGED outcome
            ELSE /\ outcome' = afterCheck(testCase.keepAlive, alive)
                 /\ kpc' = "finally"
    /\ UNCHANGED <<testCase, windowMs, begun, asideKeepAlive>>

\* await new Promise((r) => setTimeout(r, intervalMs))
Sleep ==
    /\ kpc = "sleep"
    /\ elapsed' = elapsed + intervalOf(testCase.env)
    /\ kpc' = "loop"
    /\ UNCHANGED <<testCase, windowMs, begun, checks, outcome, asideKeepAlive>>

\* the loop condition fails
Deadline ==
    /\ kpc = "loop"
    /\ ~(elapsed < windowMs)
    /\ outcome' = onDeadline(testCase.keepAlive)
    /\ kpc' = "finally"
    /\ UNCHANGED <<testCase, windowMs, elapsed, begun, checks, asideKeepAlive>>

\* lines 405 and 639-658: the browser is closed and the child stopped; closing
\* the local browser throws when the url the child gave is no url
Cleanup ==
    /\ kpc = "finally"
    /\ \E closeThrows \in BOOLEAN :
         outcome' = IF closeThrows /\ testCase.env = "LOCAL" THEN "failed"
                    ELSE outcome
    /\ kpc' = "done"
    /\ UNCHANGED <<testCase, windowMs, elapsed, begun, checks, asideKeepAlive>>

KeepAliveNext ==
    \/ SkipCase
    \/ RunScenario
    \/ ScenarioFails
    \/ ScenarioInfo
    \/ EnterAssert
    \/ BeginCheck
    \/ EndCheck
    \/ Sleep
    \/ Deadline
    \/ Cleanup

KeepAliveSpec == KeepAliveInit /\ [][KeepAliveNext]_vars

\* C13: a .json file below a directory named .v8-tmp or merged, at any depth, is
\* never in the normalizer's file list, never read, changed or rewritten by the
\* pass, and never among the files the merge driver collects and copies.
C13_ExcludedDirsNeverEntered ==
    \A f \in DOMAIN disk :
        UnderExcluded(f) =>
            /\ \A i \in DOMAIN jsonFiles : jsonFiles[i] # f
            /\ disk0[f] = Unread
            /\ writes[f] = 0
            /\ f \notin changedIn
            /\ disk[f] \in {Unread, StaleCoverage}
            /\ \A i \in DOMAIN v8CoverageFiles : v8CoverageFiles[i] # f
            /\ \A i \in DOMAIN tmpDir : tmpDir[i] = disk[v8CoverageFiles[i]]

\* C13 witness: the driver has collected and copied the two coverage files of a
\* directory that also holds an older coverage file below e2e/merged, after the
\* pass rewrote one of the two
C13_Witness ==
    /\ mpc = "spawn"
    /\ Len(tmpDir) = 2
    /\ \E f \in DOMAIN disk : UnderExcluded(f) /\ disk[f] = StaleCoverage
    /\ \E f \in DOMAIN disk : writes[f] = 1

\* what holds of the signal handler: once handleTermination has run for a
\* signal the process has exited with that signal's status, and the signal was
\* sent to the subprocess if and only if activeChild held a subprocess with a pid
HandledSignalExits ==
    /\ handled # "none" =>
         /\ mpc = "exited"
         /\ isCancelling
         /\ exitCode = exitCodeForSignal(handled)
         /\ child.signal = handled <=> (activeChild = "child" /\ child.pid)
         /\ child.signal \in {"none", handled}
    /\ handled = "none" => (child.signal = "none" /\ ~isCancelling)
    /\ activeChild = "child" <=> child.state = "running"

\* C15 as stated: when the driver has received SIGINT or SIGTERM, at whatever
\* point, it exits with the status of a signal it received (130 for SIGINT, 143
\* for SIGTERM), and it has sent that signal to the subprocess if and only if
\* one was in flight
C15_SignalForwardedAndExitStatus ==
    (mpc = "exited" /\ pending # {}) =>
        /\ \E signal \in pending : exitCode = exitCodeForSignal(signal)
        /\ child.signal # "none" => exitCode = exitCodeForSignal(child.signal)
        /\ (child.state = "running" /\ child.pid) => child.signal \in pending
        /\ child.state # "running" => child.signal = "none"

\* C15 witness: SIGTERM arrived while c8 was running; the handler sent SIGTERM
\* to the subprocess and the driver exited with 143
C15_Witness ==
    /\ mpc = "exited"
    /\ handled = "SIGTERM"
    /\ child.state = "running"
    /\ child.signal = "SIGTERM"
    /\ exitCode = 143

\* every keepAlive value is paired with every exit scenario, in either test
\* environment
AllCasesBuilt ==
    \A testEnv \in {"LOCAL", "BROWSERBASE"} :
        \A keepAlive \in BOOLEAN, k \in DOMAIN ScenarioKinds :
            \E n \in DOMAIN buildKeepAliveCases(testEnv) :
                /\ buildKeepAliveCases(testEnv)[n].keepAlive = keepAlive
                /\ buildKeepAliveCases(testEnv)[n].kind = ScenarioKinds[k]

\* a case that is over and was not skipped has passed or failed
PassedOrFailed ==
    (kpc = "done" /\ outcome # "skipped") => outcome \in {"passed", "failed"}

\* a case that expects the browser open has passed: every check reported alive,
\* and the checks went on until the stay-open window was over
StayedOpen ==
    /\ \A i \in DOMAIN checks : checks[i].alive
    /\ elapsed >= windowMs

\* C17 as stated: a case passes only if every check of the stay-open window
\* reported alive (keepAlive = true), or some check reported not-alive before
\* the close timeout elapsed (keepAlive = false); otherwise it fails
C17_PassOnlyIfObservedInTime ==
    /\ AllCasesBuilt
    /\ PassedOrFailed
    /\ (kpc = "done" /\ outcome = "passed") =>
          IF testCase.keepAlive
          THEN StayedOpen
          ELSE \E i \in DOMAIN checks :
                  ~checks[i].alive /\ checks[i].reported < windowMs

\* C17 (amended): a case passes only if every check of the stay-open window
\* reported alive (keepAlive = true), or the last check, begun before the close
\* timeout elapsed, reported not-alive, whenever its report came (keepAlive =
\* false); otherwise it fails.
C17_PassOnlyIfObservedMatches ==
    /\ AllCasesBuilt
    /\ PassedOrFailed
    /\ (kpc = "done" /\ outcome = "passed") =>
          IF testCase.keepAlive
          THEN StayedOpen
          ELSE /\ checks # << >>
               /\ ~checks[Len(checks)].alive
               /\ checks[Len(checks)].begun < windowMs
               /\ \A i \in 1..(Len(checks) - 1) : checks[i].alive

\* C17 witness: a SIGTERM case that expects the browser closed has passed on its
\* second check, whose report came after the close timeout had elapsed
C17_Witness ==
    /\ kpc = "done"
    /\ outcome = "passed"
    /\ ~testCase.keepAlive
    /\ testCase.kind = "sigterm"
    /\ Len(checks) = 2
    /\ checks[2].reported > windowMs


(***************************************************************************)
(* LineSpec: the line-table routines on their own.  A text is drawn, its   *)
(* line table is built, and either an offset is converted to a line and a  *)
(* column by the binary search, one round of the loop per step, and then   *)
(* converted back; or some line and column are converted to an offset.     *)
(*   lpc      "idle", "while" (in the loop of offsetToLineCol),            *)
(*            "returned" (offsetToLineCol returned lPos), "back"           *)
(*            (lineColToOffset returned lBack for lPos), "any"             *)
(*            (lineColToOffset returned lBack for the pair lPos)           *)
(*   lLow, lHigh   `low` and `high` of the search                          *)
(*   lRounds  the number of rounds of the loop so far                      *)
(***************************************************************************)
\* length of a text given to the line-table routines
MaxTextLen == 5
\* how far past the end of the text an offset, a line or a column can lie
MaxBeyond == 2

LineTexts == UNION { [1..n -> {CH, NL}] : n \in 0..MaxTextLen }

\* const next = mid + 1 < lineStarts.length ? lineStarts[mid + 1] : Infinity;
\* (a number above every offset stands for Infinity)
nextStart(lineStarts, mid) ==
    IF mid + 1 < Len(lineStarts) THEN lineStarts[mid + 2] ELSE MAX_SAFE_INTEGER

\* the test with `offset <= next`
inLine_closedAbove(lineStarts, offset, mid) ==
    lineStarts[mid + 1] <= offset /\ offset <= nextStart(lineStarts, mid)

\* if (start <= offset && offset < next)
inLine(lineStarts, offset, mid) ==
    lineStarts[mid + 1] <= offset /\ offset < nextStart(lineStarts, mid)

LineInit ==
    /\ NoPass
    /\ options = [maxScan |-> DefaultMaxScan]
    /\ NoRangeRun
    /\ NoMerge
    /\ NoKeepAlive
    /\ NoEnv
    /\ NoScripts
    /\ lpc = "idle"
    /\ lText \in LineTexts
    /\ lOffset = 0
    /\ lLow = 0
    /\ lHigh = 0
    /\ lRounds = 0
    /\ lPos = [line |-> 1, column |-> 0]
    /\ lBack = 0

\* offsetToLineCol(lineStarts, offset) is called: lines 80-81
EnterSearch ==
    /\ lpc = "idle"
    /\ lOffset' \in 0..(Len(lText) + MaxBeyond)
    /\ lLow' = 0
    /\ lHigh' = Len(buildLineStarts(lText)) - 1
    /\ lpc' = "while"
    /\ UNCHANGED <<lText, lRounds, lPos, lBack, asideLine>>

\* one test of `low <= high` and, when it holds, one round of the loop
\* (lines 82-95)
SearchRound ==
    /\ lpc = "while"
    /\ IF lLow > lHigh
       THEN /\ lPos' = [line |-> 1, column |-> 0]
            /\ lpc' = "returned"
            /\ UNCHANGED <<lLow, lHigh, lRounds>>
       ELSE LET lineStarts == buildLineStarts(lText)
                mid == (lLow + lHigh) \div 2
            IN  /\ lRounds' = lRounds + 1
                /\ IF inLine(lineStarts, lOffset, mid)
                   THEN /\ lPos' = [line |-> mid + 1,
                                    column |-> lOffset - lineStarts[mid + 1]]
                        /\ lpc' = "returned"
                        /\ UNCHANGED <<lLow, lHigh>>
                   ELSE /\ IF lineStarts[mid + 1] > lOffset
                           THEN lHigh' = mid - 1 /\ lLow' = lLow
                           ELSE lLow' = mid + 1 /\ lHigh' = lHigh
                        /\ UNCHANGED <<lPos, lpc>>
    /\ UNCHANGED <<lText, lOffset, lBack, asideLine>>

\* lineColToOffset on the line and column offsetToLineCol returned
ConvertBack ==
    /\ lpc = "returned"
    /\ lBack' = lineColToOffset(buildLineStarts(lText), lPos.line, lPos.column,
                                Len(lText))
    /\ lpc' = "back"
    /\ UNCHANGED <<lText, lOffset, lLow, lHigh, lRounds, lPos, asideLine>>

\* the lines and columns handed to lineColToOffset: what generatedPositionFor
\* can give (a line of any source map, a column of any source map), and the
\* end-of-line needle
AnyLines == (-1)..(MaxTextLen + 1 + MaxBeyond)
AnyColumns == ((-1)..(MaxTextLen + MaxBeyond)) \cup {MAX_SAFE_INTEGER}

\* lineColToOffset on some line and column
ConvertAny ==
    /\ lpc = "idle"
    /\ \E line \in AnyLines, column \in AnyColumns :
         /\ lPos' = [line |-> line, column |-> column]
         /\ lBack' = lineColToOffset(buildLineStarts(lText), line, column,
                                     Len(lText))
    /\ lpc' = "any"
    /\ UNCHANGED <<lText, lOffset, lLow, lHigh, lRounds, asideLine>>

LineNext == EnterSearch \/ SearchRound \/ ConvertBack \/ ConvertAny

LineSpec == LineInit /\ [][LineNext]_vars

\* the line of an offset by a scan of the table from its first entry on: the
\* first entry whose successor, if it has one, lies after the offset
RECURSIVE lineByScan(_, _, _)
lineByScan(lineStarts, offset, L) ==
    IF L >= Len(lineStarts) \/ offset < lineStarts[L + 1]
    THEN L
    ELSE lineByScan(lineStarts, offset, L + 1)

\* the table buildLineStarts gives: it starts with 0, it is strictly
\* increasing, and its entries are the offsets after the newlines
IsLineTable(lineStarts, text) ==
    /\ lineStarts[1] = 0
    /\ \A k \in 1..(Len(lineStarts) - 1) : lineStarts[k] < lineStarts[k + 1]
    /\ {lineStarts[k] : k \in 2..Len(lineStarts)}
          = {j \in 1..Len(text) : text[j] = NL}

C22_State ==
    LET lineStarts == buildLineStarts(lText)
        L == lineByScan(lineStarts, lOffset, 1)
    IN  /\ IsLineTable(lineStarts, lText)
        /\ lRounds <= Len(lineStarts)
        /\ lpc = "while" => (lLow <= L - 1 /\ L - 1 <= lHigh)
        /\ lpc \in {"returned", "back"} =>
              /\ lPos.line = L
              /\ lineStarts[lPos.line] <= lOffset
              /\ lPos.line < Len(lineStarts) => lOffset < lineStarts[lPos.line + 1]
              /\ lPos.column = lOffset - lineStarts[lPos.line]
              /\ lPos = offsetToLineCol(lineStarts, lOffset)

\* a round that does not return makes the interval [low, high] shorter
C22_Step ==
    (lpc = "while" /\ lpc' = "while") => lHigh' - lLow' < lHigh - lLow

\* C22: for every text and every offset >= 0, offsetToLineCol over the table of
\* buildLineStarts returns the 1-based line L with
\* lineStarts[L-1] <= offset < lineStarts[L] (no upper bound for the last line)
\* and column = offset - lineStarts[L-1], the line a scan of the table from its
\* first entry finds; every round of the search that does not return shortens
\* [low, high], the line sought stays inside it, and the search returns after at
\* most lineStarts.length rounds.
C22_BinarySearchIsLinearScan == []C22_State /\ [][C22_Step]_vars

\* C22 witness: a text of three lines or more, an offset past the end of the
\* text; the search went right twice and returned the last line
C22_Witness ==
    /\ lpc = "returned"
    /\ Len(buildLineStarts(lText)) >= 3
    /\ lOffset > Len(lText)
    /\ lRounds >= 2
    /\ lPos.line = Len(buildLineStarts(lText))

\* C26: for every text of length n and every offset in [0, n], lineColToOffset on
\* the line and column offsetToLineCol returned gives the offset back; and for
\* any line and column lineColToOffset returns an offset in [0, n].
C26_RoundTrip ==
    /\ (lpc = "back" /\ lOffset <= Len(lText)) => lBack = lOffset
    /\ lpc \in {"back", "any"} => lBack \in 0..Len(lText)

\* C26 witness: the offset of a newline that ends a line which is not the first,
\* converted and converted back
C26_Witness ==
    /\ lpc = "back"
    /\ lOffset >= 1
    /\ lOffset < Len(lText)
    /\ lText[lOffset + 1] = NL
    /\ lPos.line >= 2
    /\ lPos.column >= 1
    /\ lBack = lOffset

\* C26 witness of the second half: a line past the table and the end-of-line
\* column give the end of the text
C26_WitnessAny ==
    /\ lpc = "any"
    /\ lPos.line > Len(buildLineStarts(lText))
    /\ lPos.column = MAX_SAFE_INTEGER
    /\ Len(lText) >= 1
    /\ lBack = Len(lText)


\* the offsets findMappedStart may probe for the range it was given
StartWindow ==
    rBefore.startOffset ..
        Min2(rBefore.endOffset, rBefore.startOffset + options.maxScan)

\* what the consumer gives for a generated offset with one bias
biased(ctx, off, bias) ==
    originalPositionFor(ctx.consumer, offsetToLineCol(ctx.lineStarts, off).line,
                        offsetToLineCol(ctx.lineStarts, off).column, bias)

\* the upper-bound answer if it has a source, or failing that the lower-bound one
upperThenLower(upper, lower) ==
    IF upper.source # NoSource THEN upper ELSE lower

\* the lower-bound answer if it is in the target source, or failing that the
\* upper-bound one if it is; none otherwise
lowerThenUpper(lower, upper, targetSource) ==
    IF lower.source = targetSource THEN lower
    ELSE IF upper.source = targetSource THEN upper
    ELSE NullPosition

startYield(ctx, off) ==
    upperThenLower(biased(ctx, off, LEAST_UPPER_BOUND),
                   biased(ctx, off, GREATEST_LOWER_BOUND))

endYield(ctx, off, targetSource) ==
    lowerThenUpper(biased(ctx, off, GREATEST_LOWER_BOUND),
                   biased(ctx, off, LEAST_UPPER_BOUND), targetSource)

\* `found` at `offset` with `mapped` is the first of the yielding offsets in the
\* direction dir (1: smallest, -1: largest), and null iff there is none
nearestOf(result, yielding, dir) ==
    /\ result.found <=> yielding # {}
    /\ result.found =>
          /\ result.offset \in yielding
          /\ \A o \in yielding : dir * result.offset <= dir * o

\* C21: findMappedStart returns the mapping of the smallest offset of
\* [startOffset, min(endOffset, startOffset + maxScan)] at which the upper-bound
\* bias, or failing that the lower-bound bias, yields a source, and null if
\* there is none; findMappedEnd returns the mapping of the largest offset of
\* [max(startOffset, endOffset - maxScan), endOffset] at which the lower-bound
\* bias, or failing that the upper-bound bias, yields the start's source, and
\* null if there is none.
C21_NearestFirstAsymmetric ==
    (Called /\ ~isDegenerate(rBefore)) =>
        /\ nearestOf(rResult.startMapping,
                     {o \in StartWindow : startYield(rCtx, o).source # NoSource}, 1)
        /\ rResult.startMapping.found =>
              /\ rResult.startMapping.mapped
                    = startYield(rCtx, rResult.startMapping.offset)
              /\ nearestOf(rResult.endMapping,
                    {o \in EndWindow :
                        endYield(rCtx, o, rResult.startMapping.mapped.source).source
                            # NoSource}, -1)
              /\ rResult.endMapping.found =>
                    rResult.endMapping.mapped
                        = endYield(rCtx, rResult.endMapping.offset,
                                   rResult.startMapping.mapped.source)

\* C21 witness: both ends were found by the scans, the start after startOffset
\* and the end before endOffset, and at the start's offset the two biases give
\* different answers
C21_Witness ==
    /\ rCalls = 1
    /\ BothFound
    /\ rResult.startMapping.offset > rBefore.startOffset
    /\ rResult.endMapping.offset < rBefore.endOffset
    /\ rResult.startMapping.offset < rResult.endMapping.offset
    /\ biased(rCtx, rResult.endMapping.offset, LEAST_UPPER_BOUND).source
          # rResult.startMapping.mapped.source

\* C21 witness of the asymmetry: at one offset, the start of one range and the
\* end of another, the two functions return different original positions
C21_WitnessBiases ==
    /\ rCalls = 1
    /\ BothFound
    /\ rResult.startMapping.offset = rBefore.startOffset
    /\ biased(rCtx, rBefore.startOffset, LEAST_UPPER_BOUND).source \in Sources
    /\ biased(rCtx, rBefore.startOffset, GREATEST_LOWER_BOUND).source \in Sources
    /\ biased(rCtx, rBefore.startOffset, GREATEST_LOWER_BOUND)
          # rResult.startMapping.mapped


\* C24: a range with count != 0 is never widened by normalizeRange: the
\* interval it holds after the call lies inside the one it held before, and so
\* do the offsets of both mappings and the pair computed from them.
C24_ExecutedRangeNeverWidened ==
    (Called /\ rBefore.count # 0) =>
        /\ rRange.startOffset >= rBefore.startOffset
        /\ rRange.endOffset <= rBefore.endOffset
        /\ rRange.count = rBefore.count
        /\ BothFound =>
              /\ rResult.startMapping.offset \in
                    rBefore.startOffset .. rBefore.endOffset
              /\ rResult.endMapping.offset \in
                    rBefore.startOffset .. rBefore.endOffset
              /\ rResult.startOffset = rResult.startMapping.offset
              /\ rResult.endOffset = rResult.endMapping.offset

\* C24 witness: an executed range that was narrowed at both ends; the reverse
\* mapping of its original lines exists, so the expansion would have applied to
\* it had its count been 0
C24_Witness ==
    /\ rCalls = 1
    /\ rBefore.count # 0
    /\ rResult.changed
    /\ rRange.startOffset > rBefore.startOffset
    /\ rRange.endOffset < rBefore.endOffset
    /\ expandedStart(rCtx, rResult.startMapping) >= 0
    /\ expandedEnd(rCtx, rResult.startMapping, rResult.endMapping) >= 0


\* a result array without the offsets of its ranges: the entries and their urls,
\* the function blocks of each, the ranges of each block and their counts, in
\* the order of the file
withoutOffsetsOfBlock(block) ==
    [hasRanges |-> block.hasRanges,
     counts |-> [k \in DOMAIN block.ranges |-> block.ranges[k].count]]

withoutOffsetsOfEntry(e) ==
    [url |-> e.url, hasFunctions |-> e.hasFunctions,
     functions |-> [j \in DOMAIN e.functions |->
                       withoutOffsetsOfBlock(e.functions[j])]]

withoutOffsets(result) ==
    [i \in DOMAIN result |-> withoutOffsetsOfEntry(result[i])]

\* the offsets of a range differ from those of another
offsetsDiffer(r1, r2) ==
    r1.startOffset # r2.startOffset \/ r1.endOffset # r2.endOffset

\* C25: at every point of a pass, every coverage file on disk and the file in
\* memory have the entries, function blocks and ranges they were read with, in
\* the same number and order and with the same counts: nothing but startOffset
\* and endOffset of ranges differs; and a call of normalizeRange returns true
\* exactly when the range's offsets after the call differ from those before it.
C25_OnlyOffsetsChange ==
    /\ \A f \in DOMAIN disk :
          /\ disk[f].kind = "coverage" =>
                /\ disk0[f].kind = "coverage"
                /\ withoutOffsets(disk[f].result) = withoutOffsets(disk0[f].result)
          /\ (disk[f].kind # disk0[f].kind) => error = "io"
    /\ pc \in {"entry", "await", "range", "write"} =>
          /\ data.kind = "coverage"
          /\ withoutOffsets(data.result) = withoutOffsets(disk0[file].result)
    /\ last # NoCall =>
          /\ last.result.changed <=> offsetsDiffer(last.result.range, last.given)
          /\ last.result.range.count = last.given.count
    /\ Called =>
          /\ rResult.changed <=> offsetsDiffer(rRange, rBefore)
          /\ rRange.count = rBefore.count

\* C25 witness: a pass that returned after it rewrote a file of two entries with
\* three function blocks in which a range of count 1 and a range of count 0 got
\* other offsets, next to ranges that kept theirs
C25_Witness ==
    /\ pc = "done"
    /\ error = "none"
    /\ \E f \in DOMAIN disk :
          /\ writes[f] = 1
          /\ Len(disk[f].result) = 2
          /\ disk[f].result[1] # disk0[f].result[1]
          /\ disk[f].result[2] = disk0[f].result[2]
          /\ Len(disk[f].result[1].functions) = 2
          /\ \E b \in {1, 2}, k \in {1, 2} :
                /\ k \in DOMAIN disk[f].result[1].functions[b].ranges
                /\ disk[f].result[1].functions[b].ranges[k].count = 1
                /\ offsetsDiffer(disk[f].result[1].functions[b].ranges[k],
                                 disk0[f].result[1].functions[b].ranges[k])
          /\ \E b \in {1, 2} :
                /\ disk[f].result[1].functions[b].ranges[1].count = 0
                /\ offsetsDiffer(disk[f].result[1].functions[b].ranges[1],
                                 disk0[f].result[1].functions[b].ranges[1])


(***************************************************************************)
(* BudgetSpec: a pass started either way, by the script itself             *)
(* (normalize-v8-coverage.ts, main) or by the merge driver (coverage.ts),  *)
(* in an environment where V8_COVERAGE_SCAN_LIMIT is not set, is empty, or *)
(* holds a number.  userEnv is the variable as the process was started     *)
(* with it, procEnv the variable as the process holds it.  The driver is   *)
(* run without signals here.                                               *)
(***************************************************************************)
EnvValues ==
    { Unset, EnvText(<< >>), EnvText(<<"0">>), EnvText(<<"2">>),
      EnvText(DriverScanLimitText) }

BudgetInit ==
    /\ NoRangeRun
    /\ NoKeepAlive
    /\ NoLine
    /\ NoScripts
    /\ userEnv \in EnvValues
    /\ procEnv = userEnv
    /\ \/ pc = "main" /\ mpc = "idle"
       \/ pc = "idle" /\ mpc = "boot"
    /\ tree \in {TreeNoJson, TreeFlat}
    /\ options = [maxScan |-> 0]
    /\ jsonFiles = << >>
    /\ fileIdx = 0 /\ entryIdx = 0 /\ blockIdx = 0 /\ rangeIdx = 0
    /\ data = NoData
    /\ updated = FALSE
    /\ disk = [f \in AllJsonFiles(tree) |-> Unread]
    /\ disk0 = [f \in AllJsonFiles(tree) |-> Unread]
    /\ sourceCache = [p \in JsPaths |-> "undefined"]
    /\ consumers = [p \in JsPaths |-> "none"]
    /\ genKind = [p \in JsPaths |-> "unknown"]
    /\ error = "none"
    /\ reads = [p \in JsPaths |-> 0]
    /\ builds = [p \in JsPaths |-> 0]
    /\ writes = [f \in AllJsonFiles(tree) |-> 0]
    /\ changedIn = {}
    /\ usedDead = FALSE
    /\ last = NoCall
    /\ v8CoverageFiles = << >>
    /\ tmpDir = << >>
    /\ mergedDir = "absent"
    /\ activeChild = "null"
    /\ child = NoChild
    /\ isCancelling = FALSE
    /\ pending = {}
    /\ handled = "none"
    /\ exitCode = 0

\* normalize-v8-coverage.ts lines 427-437 and 416-423: main with a coverage
\* directory calls normalizeV8Coverage, which reads the budget from the
\* environment and calls normalizeCoverageDir
Main ==
    /\ pc = "main"
    /\ options' = [maxScan |-> scanLimitOf(procEnv)]
    /\ pc' = "start"
    /\ UNCHANGED <<tree, jsonFiles, fileIdx, entryIdx, blockIdx, rangeIdx, data,
                   updated, disk, sourceCache, consumers, genKind, error, disk0,
                   reads, builds, writes, changedIn, usedDead, last, rangeVars,
                   restVars>>

\* lines 432-436: main without --coverage-dir and without NODE_V8_COVERAGE
MainUsage ==
    /\ pc = "main"
    /\ error' = "usage"
    /\ pc' = "done"
    /\ UNCHANGED <<tree, options, jsonFiles, fileIdx, entryIdx, blockIdx, rangeIdx,
                   data, updated, disk, sourceCache, consumers, genKind, disk0,
                   reads, builds, writes, changedIn, usedDead, last, rangeVars,
                   restVars>>

\* a step of the pass main awaits
StandalonePass ==
    /\ mpc = "idle"
    /\ Next

BudgetNext ==
    \/ Main
    \/ MainUsage
    \/ StandalonePass
    \/ Prologue
    \/ NormalizeV8Coverage
    \/ NormalizeReturns
    \/ NormalizeRejects
    \/ Collect
    \/ Copy
    \/ Spawn
    \/ ChildError
    \/ ChildClose
    \/ Exit

BudgetSpec == BudgetInit /\ [][BudgetNext]_vars

\* a value is supplied: the variable is set and not empty (the test of
\* coverage.ts line 49)
Supplied(v) == v.set /\ v.text # << >>

\* normalizeCoverageDir has been called
PassStarted == pc \notin {"idle", "main"} /\ error # "usage"

\* what holds of the budget: the pass runs with 20000 when the variable is not
\* set and with Number(text) when it is set (0 for the empty text); the driver
\* keeps a variable that is set to a non-empty text and sets any other to 2000;
\* and the scans of the pass stay within the budget
BudgetFollowsEnvironment ==
    /\ userEnv \in EnvValues
    /\ (mpc = "idle" \/ Supplied(userEnv)) => procEnv = userEnv
    /\ (mpc \notin {"idle", "boot"} /\ ~Supplied(userEnv))
          => procEnv = EnvText(DriverScanLimitText)
    /\ PassStarted =>
          /\ ~procEnv.set => options.maxScan = DefaultMaxScan
          /\ procEnv = EnvText(<< >>) => options.maxScan = 0
          /\ procEnv = EnvText(<<"0">>) => options.maxScan = 0
          /\ procEnv = EnvText(<<"2">>) => options.maxScan = 2
          /\ procEnv = EnvText(DriverScanLimitText) => options.maxScan = 2000
          /\ last # NoCall =>
                /\ Cardinality(last.result.startMapping.probes)
                      <= 1 + options.maxScan
                /\ Cardinality(last.result.endMapping.probes)
                      <= 1 + options.maxScan

\* C23: a pass runs with a scan budget of 20000 when no value is supplied in
\* V8_COVERAGE_SCAN_LIMIT and with the supplied value when one is, and the
\* merge driver leaves a value the user supplied as it is.
C23_BudgetFromOverride ==
    /\ Supplied(userEnv) => procEnv = userEnv
    /\ PassStarted =>
          /\ ~Supplied(procEnv) => options.maxScan = 20000
          /\ procEnv = EnvText(<<"0">>) => options.maxScan = 0
          /\ procEnv = EnvText(<<"2">>) => options.maxScan = 2
          /\ procEnv = EnvText(<<"2", "0", "0", "0">>) => options.maxScan = 2000

\* C23 witness: the script was started with V8_COVERAGE_SCAN_LIMIT set to the
\* empty text and normalized a range of four offsets without scanning
C23_Witness ==
    /\ mpc = "idle"
    /\ userEnv = EnvText(<< >>)
    /\ options.maxScan = 0
    /\ last.given = RangeNarrowed
    /\ last.result.startMapping.probes = {0}
    /\ ~last.result.changed


\* coverage/merged and coverage/.v8-tmp of an earlier run are gone
OldOutputRemoved ==
    /\ \A i \in DOMAIN tree.dirs[Root] :
          ~(tree.dirs[Root][i].kind = "dir"
            /\ tree.dirs[Root][i].name \in {"merged", ".v8-tmp"})
    /\ \A f \in DOMAIN disk : f[2] \notin {"merged", ".v8-tmp"}

\* the order of the driver's steps, as a property of every state: nothing
\* happens before the old output is removed; nothing is collected, copied or
\* spawned while the pass runs; files are collected, and then copied, only
\* after the pass has returned; c8 is spawned only after the copies are made
C27_Order ==
    /\ mpc = "boot" =>
          /\ pc = "idle"
          /\ v8CoverageFiles = << >> /\ tmpDir = << >> /\ child = NoChild
    /\ mpc # "boot" => OldOutputRemoved
    /\ mpc = "normalize" =>
          /\ v8CoverageFiles = << >> /\ tmpDir = << >> /\ child = NoChild
          /\ mergedDir = "absent"
    /\ mpc \in {"collect", "copy", "spawn", "child", "settled"} => Returned
    /\ v8CoverageFiles # << >> =>
          /\ Returned
          /\ v8CoverageFiles = collectV8CoverageFiles(tree, disk)
    /\ mpc = "copy" => (tmpDir = << >> /\ child = NoChild)
    /\ tmpDir # << >> =>
          /\ v8CoverageFiles # << >>
          /\ tmpDir = [i \in DOMAIN v8CoverageFiles |-> disk[v8CoverageFiles[i]]]
    /\ mpc = "spawn" => (tmpDir # << >> /\ child = NoChild)
    /\ child # NoChild => (tmpDir # << >> /\ mergedDir # "absent")
    /\ mergedDir = "reports" => (mpc = "boot" \/ child.state = "closed")

\* once the pass is over the coverage directory is not written again, and the
\* driver's position only moves forward
C27_Step ==
    /\ mpc \notin {"boot", "normalize"} => UNCHANGED <<tree, disk, passVars>>
    /\ mpc' # mpc =>
          <<mpc, mpc'>> \in
             { <<"boot", "normalize">>, <<"normalize", "collect">>,
               <<"collect", "copy">>, <<"copy", "spawn">>, <<"spawn", "child">>,
               <<"child", "settled">>, <<"normalize", "exited">>,
               <<"collect", "exited">>, <<"child", "exited">>,
               <<"settled", "exited">> }

C27_Exit ==
    mpc = "exited" =>
        IF handled # "none"
        THEN /\ exitCode = exitCodeForSignal(handled)
             /\ child.state # "closed"
        ELSE IF Thrown
        THEN /\ exitCode = 1
             /\ v8CoverageFiles = << >> /\ tmpDir = << >> /\ child = NoChild
        ELSE IF v8CoverageFiles = << >>
        THEN /\ exitCode = 0
             /\ Returned
             /\ collectV8CoverageFiles(tree, disk) = << >>
             /\ tmpDir = << >> /\ child = NoChild
        ELSE /\ child.state = "closed"
             /\ IF child.pid /\ child.code # NoExitCode
                THEN exitCode = child.code
                ELSE exitCode = 1

TimeoutTicks == 60
\* the abort timer of one health request, 2_000 ms (line 304)
AbortTicks == 4
\* the pause between two health requests, 1_000 ms (line 310)
RetryTicks == 2

Targets == {"sea", "local", "remote"}

\* what spawnSync reports for node --test: an exit status, or none (null) when
\* the run was ended by a signal
TestStatuses == {0, 1, NoExitCode}

\* Date.now() - start < timeoutMs (line 301)
beforeDeadline_inclusive(elapsedTicks) == elapsedTicks <= TimeoutTicks
beforeDeadline(elapsedTicks) == elapsedTicks < TimeoutTicks

ServerInit ==
    /\ NoPass
    /\ options = [maxScan |-> DefaultMaxScan]
    /\ NoRangeRun
    /\ NoMerge
    /\ NoKeepAlive
    /\ NoLine
    /\ NoEnv
    /\ boot = NoBoot
    /\ harness = NoHarness
    /\ \E target \in Targets, seaBinary, unitPaths, integrationPaths \in BOOLEAN :
          runner = [NoRunner EXCEPT !.pc = "unit", !.target = target,
                                    !.seaBinary = seaBinary,
                                    !.unitPaths = unitPaths,
                                    !.integrationPaths = integrationPaths]

\* lines 357-367: the unit step, run when there are unit paths; the test at
\* line 369 follows it
gate(r) ==
    IF r.status = 0 /\ r.integrationPaths THEN [r EXCEPT !.pc = "start"]
                                           ELSE [r EXCEPT !.pc = "cleanup"]

UnitStep ==
    /\ runner.pc = "unit"
    /\ IF runner.unitPaths
       THEN \E status \in TestStatuses :
               runner' = gate([runner EXCEPT !.status = orOne(status),
                                             !.unitStatus = orOne(status)])
       ELSE runner' = gate(runner)
    /\ UNCHANGED asideRunner

\* reporterArgsFor (lines 266-281) creates the directory of the report with
\* mkdirSync; when that throws nothing catches it and the process ends with 1
ReporterDirThrows ==
    /\ \/ runner.pc = "unit" /\ runner.unitPaths
       \/ runner.pc = "integration"
    /\ runner' = [runner EXCEPT !.pc = "exited", !.thrown = TRUE, !.exit = 1]
    /\ UNCHANGED asideRunner

\* startServer (lines 316-352), and waitForServer up to line 300
StartServer ==
    /\ runner.pc = "start"
    /\ runner' =
         IF runner.target = "remote"
         THEN [runner EXCEPT !.pc = "while", !.waited = TRUE]
         ELSE IF runner.target = "sea" /\ ~runner.seaBinary
         THEN [runner EXCEPT !.pc = "exited", !.exit = 1]
         ELSE [runner EXCEPT !.pc = "while", !.waited = TRUE,
                             !.serverProc = "running"]
    /\ UNCHANGED asideRunner

\* the server starts to answer /healthz: the spawned process, or the remote one
ServerListens ==
    /\ runner.pc \in {"while", "fetch", "sleep"}
    /\ ~runner.listening
    /\ runner.target = "remote" \/ runner.serverProc = "running"
    /\ runner' = [runner EXCEPT !.listening = TRUE]
    /\ UNCHANGED asideRunner

\* the spawned server ends by itself
ServerDies ==
    /\ runner.pc \in {"while", "fetch", "sleep", "integration"}
    /\ runner.serverProc = "running"
    /\ runner' = [runner EXCEPT !.serverProc = "exited", !.listening = FALSE]
    /\ UNCHANGED asideRunner

\* line 301, then lines 303-305 (the request is sent) or line 313 and lines
\* 372-375 (waitForServer returns false)
LoopTest ==
    /\ runner.pc = "while"
    /\ runner' =
         IF beforeDeadline(runner.now)
         THEN [runner EXCEPT !.pc = "fetch", !.fetchAt = runner.now]
         ELSE [runner EXCEPT !.pc = "cleanup", !.status = 1]
    /\ UNCHANGED asideRunner

\* lines 305-309: the request ends after some time, at the latest when the
\* abort timer fires; an answer that is ok needs a server that answers
FetchEnds ==
    /\ runner.pc = "fetch"
    /\ \E took \in 0..AbortTicks, ok \in BOOLEAN :
          /\ ok => runner.listening /\ took < AbortTicks
          /\ runner' =
               IF ok
               THEN [runner EXCEPT !.pc = "integration",
                                   !.now = runner.now + took,
                                   !.okAt = runner.now + took]
               ELSE [runner EXCEPT !.pc = "sleep", !.now = runner.now + took]
    /\ UNCHANGED asideRunner

\* line 310
Pause ==
    /\ runner.pc = "sleep"
    /\ runner' = [runner EXCEPT !.pc = "while", !.now = runner.now + RetryTicks]
    /\ UNCHANGED asideRunner

\* lines 376-380
IntegrationStep ==
    /\ runner.pc = "integration"
    /\ \E status \in TestStatuses :
          runner' = [runner EXCEPT !.pc = "cleanup", !.ranIntegration = TRUE,
                                   !.status = orOne(status)]
    /\ UNCHANGED asideRunner

\* lines 383-395: SIGTERM, then the wait for the exit (at most 10 s) and the
\* further 5 s
KillServer ==
    /\ runner.pc = "cleanup"
    /\ runner.serverProc # "null"
    /\ \E gone \in BOOLEAN :
          runner' = [runner EXCEPT !.pc = "exit", !.sigterm = TRUE,
                                   !.serverProc =
                                      IF gone THEN "exited" ELSE @]
    /\ UNCHANGED asideRunner

\* line 383 with serverProc null
NoServerToKill ==
    /\ runner.pc = "cleanup"
    /\ runner.serverProc = "null"
    /\ runner' = [runner EXCEPT !.pc = "exit"]
    /\ UNCHANGED asideRunner

\* line 397
RunnerExit ==
    /\ runner.pc = "exit"
    /\ runner' = [runner EXCEPT !.pc = "exited", !.exit = runner.status]
    /\ UNCHANGED asideRunner

ServerNext ==
    \/ UnitStep
    \/ ReporterDirThrows
    \/ StartServer
    \/ ServerListens
    \/ ServerDies
    \/ LoopTest
    \/ FetchEnds
    \/ Pause
    \/ IntegrationStep
    \/ KillServer
    \/ NoServerToKill
    \/ RunnerExit

ServerSpec == ServerInit /\ [][ServerNext]_vars

RunnerExited == runner.pc = "exited"

\* C28 (as stated): integration tests run only if the unit step, when there
\* was one, exited with 0 and the health check had succeeded before the 30 s
\* deadline; a runner that waited for a server that never answered ends with a
\* status that is not 0 and has run no integration test; and a runner that
\* started a server process has sent it SIGTERM whenever it has exited.
C28_GatedAndAlwaysKilled ==
    /\ runner.ranIntegration =>
          /\ runner.unitPaths => runner.unitStatus = 0
          /\ runner.okAt # NoTime /\ runner.okAt < TimeoutTicks
    /\ RunnerExited /\ runner.waited /\ runner.okAt = NoTime =>
          runner.exit # 0 /\ ~runner.ranIntegration
    /\ RunnerExited /\ runner.serverProc # "null" => runner.sigterm

\* C28: integration tests run only if the unit step, when there was one, exited
\* with 0 and a health request sent before the 30 s deadline was answered ok
\* (the answer comes within the 2 s of the abort timer, so possibly after the
\* deadline); a runner that waited for a server that never answered ends with
\* a status that is not 0 and has run no integration test; a runner that
\* started a server process and ended at its last line has sent it SIGTERM
\* before, and one ended by an exception of the integration step has not.
C28_GatedAndKilledAtEnd ==
    /\ runner.ranIntegration =>
          /\ runner.unitPaths => runner.unitStatus = 0
          /\ runner.okAt # NoTime
          /\ runner.fetchAt < TimeoutTicks
          /\ runner.okAt < runner.fetchAt + AbortTicks
    /\ RunnerExited /\ runner.waited /\ runner.okAt = NoTime =>
          runner.exit # 0 /\ ~runner.ranIntegration
    /\ RunnerExited /\ runner.serverProc # "null" =>
          (runner.sigterm <=> ~runner.thrown)

\* integration tests have run after a health request that was sent in time and
\* answered after the deadline, the server was signalled and the runner is gone
C28_Witness ==
    /\ RunnerExited
    /\ runner.ranIntegration
    /\ runner.unitPaths
    /\ runner.okAt > TimeoutTicks
    /\ runner.sigterm
    /\ runner.exit = 0

\* the server never answered: no integration test, status 1, SIGTERM sent
C28_WitnessNeverReady ==
    /\ RunnerExited
    /\ runner.waited
    /\ runner.okAt = NoTime
    /\ runner.serverProc = "running"
    /\ runner.sigterm
    /\ runner.exit = 1

(***************************************************************************)
(* The bootstrap of the SEA binary: the template at lines 383-425 of       *)
(* packages/server/scripts/build-sea.ts.  Several processes started from   *)
(* the same binary share bundleHash and cacheDir.  A file is the number of *)
(* bytes of the bundle written to it so far.                               *)
(***************************************************************************)

\* processes started from the binary; their pids differ
MaxProcs == 3
Pids == 1..MaxProcs

\* bundleLength (line 390), counted in the chunks writeFileSync writes
BundleLength == 2

\* no such file
Absent == -1
NotImported == -2

\* appPath (line 397) and tmpPath (lines 407-408)
appPath == <<"app.mjs", 0>>
tmpPath_appPath(pid) == appPath
tmpPath(pid) == <<"app.mjs.tmp", pid>>

CachePaths == {appPath} \cup {tmpPath(pid) : pid \in Pids}

\* the cache directory holds no app.mjs, or the one an earlier run published
BootInit ==
    /\ NoPass
    /\ options = [maxScan |-> DefaultMaxScan]
    /\ NoRangeRun
    /\ NoMerge
    /\ NoKeepAlive
    /\ NoLine
    /\ NoEnv
    /\ runner = NoRunner
    /\ harness = NoHarness
    /\ \E app \in {Absent, BundleLength} :
          boot = [files |-> [f \in CachePaths |->
                               IF f = appPath THEN app ELSE Absent],
                  pc |-> [pid \in Pids |-> "start"],
                  renameFailed |-> [pid \in Pids |-> FALSE],
                  imported |-> [pid \in Pids |-> NotImported]]

\* lines 399-404: statSync throws when there is no file
needsWrite(files) ==
    IF files[appPath] = Absent THEN TRUE ELSE files[appPath] # BundleLength

StatApp(pid) ==
    /\ boot.pc[pid] = "start"
    /\ boot' = [boot EXCEPT !.pc[pid] =
                  IF needsWrite(boot.files) THEN "open" ELSE "import"]
    /\ UNCHANGED asideBoot

\* line 409, writeFileSync: the file is created or emptied, ...
OpenTmp(pid) ==
    /\ boot.pc[pid] = "open"
    /\ boot' = [boot EXCEPT !.pc[pid] = "write", !.files[tmpPath(pid)] = 0]
    /\ UNCHANGED asideBoot

\* ... the bytes are written, and it returns
WriteTmp(pid) ==
    /\ boot.pc[pid] = "write"
    /\ boot' =
         IF boot.files[tmpPath(pid)] < BundleLength
         THEN [boot EXCEPT !.files[tmpPath(pid)] = @ + 1]
         ELSE [boot EXCEPT !.pc[pid] = "rename"]
    /\ UNCHANGED asideBoot

\* writeFileSync throws (the disk is full), or the process is killed while it
\* writes: nothing catches it
WriteThrows(pid) ==
    /\ boot.pc[pid] = "write"
    /\ boot' = [boot EXCEPT !.pc[pid] = "dead"]
    /\ UNCHANGED asideBoot

\* line 411, renameSync replaces appPath by the temporary file in one step
Rename(pid) ==
    /\ boot.pc[pid] = "rename"
    /\ boot' = [boot EXCEPT !.pc[pid] = "chmod",
                            !.files[tmpPath(pid)] = Absent,
                            !.files[appPath] = boot.files[tmpPath(pid)]]
    /\ UNCHANGED asideBoot

\* lines 412-414: renameSync throws and leaves both files as they are
RenameThrows(pid) ==
    /\ boot.pc[pid] = "rename"
    /\ boot' =
         IF boot.files[appPath] = Absent
         THEN [boot EXCEPT !.pc[pid] = "dead", !.renameFailed[pid] = TRUE]
         ELSE [boot EXCEPT !.pc[pid] = "chmod", !.renameFailed[pid] = TRUE]
    /\ UNCHANGED asideBoot

\* lines 415-417: chmodSync changes the mode only, and a failure is ignored
Chmod(pid) ==
    /\ boot.pc[pid] = "chmod"
    /\ boot' = [boot EXCEPT !.pc[pid] = "import"]
    /\ UNCHANGED asideBoot

\* lines 420-425: the import reads the file that is at appPath
Import(pid) ==
    /\ boot.pc[pid] = "import"
    /\ boot' = [boot EXCEPT !.pc[pid] = "running",
                            !.imported[pid] = boot.files[appPath]]
    /\ UNCHANGED asideBoot

BootNext ==
    \E pid \in Pids :
       \/ StatApp(pid)
       \/ OpenTmp(pid)
       \/ WriteTmp(pid)
       \/ WriteThrows(pid)
       \/ Rename(pid)
       \/ RenameThrows(pid)
       \/ Chmod(pid)
       \/ Import(pid)

BootSpec == BootInit /\ [][BootNext]_vars

\* process pid has renamed its temporary file onto appPath in this step
Published(pid) ==
    /\ boot.pc[pid] = "rename"
    /\ boot'.pc[pid] = "chmod"
    /\ ~boot'.renameFailed[pid]
    /\ boot.files[tmpPath(pid)] = BundleLength
    /\ boot'.files[appPath] = BundleLength
    /\ boot'.files[tmpPath(pid)] = Absent

C29_State ==
    /\ boot.files[appPath] \in {Absent, BundleLength}
    /\ \A pid \in Pids :
          /\ boot.pc[pid] \in {"chmod", "import", "running"}
                => boot.files[appPath] # Absent
          /\ boot.imported[pid] \in {NotImported, BundleLength}
          /\ boot.pc[pid] \in {"write", "rename"}
                => boot.files[tmpPath(pid)] # Absent

C29_Step ==
    /\ boot'.files[appPath] # boot.files[appPath]
          => \E pid \in Pids : Published(pid)
    /\ \A pid \in Pids :
          boot'.files[tmpPath(pid)] # boot.files[tmpPath(pid)]
             => boot'.pc[pid] # boot.pc[pid] \/ boot.pc[pid] = "write"

\* C29: with several processes started at once on one cache directory, app.mjs
\* is in every state absent or the complete bundle; it changes only when a
\* process renames its own, completely written temporary file onto it, and a
\* temporary file is changed by its own process only; a process that is past
\* the rename, whether it succeeded or failed, finds app.mjs in place; and what
\* a process imports is the complete bundle.
C29_AbsentOrComplete == []C29_State /\ [][C29_Step]_vars

\* a process whose rename failed went on and imported the complete bundle that
\* another process published while a third was still writing its own file
C29_Witness ==
    \E p, q, w \in Pids :
       /\ boot.renameFailed[p] /\ boot.imported[p] = BundleLength
       /\ ~boot.renameFailed[q] /\ boot.pc[q] \in {"chmod", "import", "running"}
       /\ q # p
       /\ boot.pc[w] = "write" /\ boot.files[tmpPath(w)] \in 1..(BundleLength - 1)
       /\ boot.files[appPath] = BundleLength

(***************************************************************************)
(* One keep-alive case with its child process: runScenario (lines 105-214) *)
(* and runKeepAliveCase (lines 577-659) of keep-alive.spec.ts.  The child  *)
(* writes to a pipe and exits when it likes; the handlers of runScenario   *)
(* run when the event loop gets to them, in any order with the timer.      *)
(***************************************************************************)

\* `__KEEPALIVE__` lines a child writes at most
MaxInfoLines == 2

\* resolve and reject of a promise: the first call settles it, later calls do
\* nothing
settle(promise, by, line) ==
    IF promise.state = "pending"
    THEN [state |-> IF by = "info" THEN "fulfilled" ELSE "rejected",
          by |-> by, line |-> line]
    ELSE promise

\* clearTimeout(timeout)
clearTimeout(timer) == IF timer = "armed" THEN "cleared" ELSE timer

\* stopChild (lines 216-230): a child with an exit code is left alone, any other
\* is sent SIGKILL
stopChild_leavesRunning(h) == h
stopChild(h) ==
    IF h.childState = "exited" THEN [h EXCEPT !.stopped = TRUE]
    ELSE [h EXCEPT !.stopped = TRUE, !.signals = @ \cup {"SIGKILL"}]

\* the case and what the child's info line will carry; a Browserbase case runs
\* with credentials only (lines 668-670)
HarnessInit ==
    /\ NoPass
    /\ options = [maxScan |-> DefaultMaxScan]
    /\ NoRangeRun
    /\ NoMerge
    /\ NoKeepAlive
    /\ NoLine
    /\ NoEnv
    /\ runner = NoRunner
    /\ boot = NoBoot
    /\ \E env \in {"LOCAL", "BROWSERBASE"}, n \in DOMAIN ScenarioKinds,
          keepAlive, connectURL, sessionId \in BOOLEAN :
          harness = [NoHarness EXCEPT !.pc = "start", !.env = env,
                                      !.kind = ScenarioKinds[n],
                                      !.keepAlive = keepAlive,
                                      !.connectURL = connectURL,
                                      !.sessionId = sessionId]

\* lines 122-126: there is no child script
NoChildRunner ==
    /\ harness.pc = "start"
    /\ harness' = [harness EXCEPT !.pc = "settled", !.outcome = "rejected"]
    /\ UNCHANGED asideHarness

\* lines 128-156: spawn, which gives a running child or an `error` event, and
\* the timer of the info promise
SpawnChild ==
    /\ harness.pc = "start"
    /\ \E spawned \in BOOLEAN :
          harness' = [harness EXCEPT !.pc = "await", !.timer = "armed",
                         !.childState = IF spawned THEN "running" ELSE "none",
                         !.errorPending = ~spawned]
    /\ UNCHANGED asideHarness

\* the child writes a `__KEEPALIVE__` line to its stdout
ChildEmits ==
    /\ harness.childState = "running"
    /\ harness.emitted < MaxInfoLines
    /\ harness' = [harness EXCEPT !.emitted = @ + 1,
                                  !.inPipe = Append(@, harness.emitted + 1)]
    /\ UNCHANGED asideHarness

\* the child ends: by itself, with an exit code, or by a signal it was sent
ChildExits ==
    /\ harness.childState = "running"
    /\ \E bySignal \in BOOLEAN :
          /\ bySignal => harness.signals # {}
          /\ harness' = [harness EXCEPT !.exitPending = TRUE,
                            !.childState = IF bySignal THEN "killed" ELSE "exited"]
    /\ UNCHANGED asideHarness

\* lines 158-175: child.stdout.on("data")
OnData ==
    /\ harness.inPipe # << >>
    /\ harness' =
         IF ~harness.resolved
         THEN [harness EXCEPT !.inPipe = Tail(@), !.resolved = TRUE,
                  !.timer = clearTimeout(@),
                  !.infoPromise = settle(@, "info", Head(harness.inPipe))]
         ELSE [harness EXCEPT !.inPipe = Tail(@)]
    /\ UNCHANGED asideHarness

\* lines 177-193: child.on("exit")
OnExit ==
    /\ harness.exitPending
    /\ harness' =
         IF harness.resolved
         THEN [harness EXCEPT !.exitPending = FALSE]
         ELSE [harness EXCEPT !.exitPending = FALSE, !.timer = clearTimeout(@),
                              !.infoPromise = settle(@, "exit", 0)]
    /\ UNCHANGED asideHarness

\* lines 195-199: child.on("error")
OnError ==
    /\ harness.errorPending
    /\ harness' =
         IF harness.resolved
         THEN [harness EXCEPT !.errorPending = FALSE]
         ELSE [harness EXCEPT !.errorPending = FALSE, !.timer = clearTimeout(@),
                              !.infoPromise = settle(@, "error", 0)]
    /\ UNCHANGED asideHarness

\* lines 141-156: the timer of the info promise fires
OnTimeout ==
    /\ harness.timer = "armed"
    /\ harness' = [harness EXCEPT !.timer = "fired",
                                  !.signals = @ \cup {"SIGKILL"},
                                  !.infoPromise = settle(@, "timeout", 0)]
    /\ UNCHANGED asideHarness

\* lines 212-213 and 588-613: `await infoPromise` is over; runKeepAliveCase
\* rethrows a rejection, and otherwise signals the child as the scenario says
AwaitInfo ==
    /\ harness.pc = "await"
    /\ harness.infoPromise.state # "pending"
    /\ harness' =
         IF harness.infoPromise.state = "rejected"
         THEN [harness EXCEPT !.pc = "settled", !.outcome = "rejected"]
         ELSE [harness EXCEPT !.pc = "waitExit",
                  !.signals = IF harness.kind = "sigterm" THEN @ \cup {"SIGTERM"}
                              ELSE IF harness.kind = "sigint" THEN @ \cup {"SIGINT"}
                              ELSE @]
    /\ UNCHANGED asideHarness

\* lines 618-632: waitForChildExit returns when the child has exited or the
\* time is over, then assertBrowserState passes or throws; it throws for a
\* Browserbase case without a session id (line 421), a local browser without a
\* port in its url counts as not alive (lines 246-252), and a case that expects
\* the browser open closes it when it passes (lines 405, 437)
AssertBrowserState ==
    /\ harness.pc = "waitExit"
    /\ \E passed \in BOOLEAN :
          /\ harness.env = "BROWSERBASE" /\ ~harness.sessionId => ~passed
          /\ harness.env = "LOCAL" /\ ~harness.connectURL
                => (passed <=> ~harness.keepAlive)
          /\ harness' = [harness EXCEPT !.pc = "finally",
                !.assertion = IF passed THEN "passed" ELSE "threw",
                !.closeRequested = passed /\ harness.keepAlive
                                      /\ harness.env = "LOCAL",
                !.releaseRequested = passed /\ harness.keepAlive
                                        /\ harness.env = "BROWSERBASE"]
    /\ UNCHANGED asideHarness

\* lines 639-646
StopChild ==
    /\ harness.pc = "finally"
    /\ harness' = [stopChild(harness) EXCEPT !.pc = "close"]
    /\ UNCHANGED asideHarness

\* lines 647-658, and the promise of runKeepAliveCase settles; closeLocalBrowser
\* throws when the url is one WebSocket does not take
CloseOrRelease ==
    /\ harness.pc = "close"
    /\ \E closeThrows \in BOOLEAN :
          /\ closeThrows => harness.env = "LOCAL" /\ harness.connectURL
          /\ harness' = [harness EXCEPT !.pc = "settled",
                !.closeRequested =
                    @ \/ (harness.env = "LOCAL" /\ harness.connectURL),
                !.releaseRequested =
                    @ \/ (harness.env = "BROWSERBASE" /\ harness.sessionId),
                !.outcome = IF harness.assertion = "passed" /\ ~closeThrows
                            THEN "fulfilled" ELSE "rejected"]
    /\ UNCHANGED asideHarness

HarnessNext ==
    \/ NoChildRunner
    \/ SpawnChild
    \/ ChildEmits
    \/ ChildExits
    \/ OnData
    \/ OnExit
    \/ OnError
    \/ OnTimeout
    \/ AwaitInfo
    \/ AssertBrowserState
    \/ StopChild
    \/ CloseOrRelease

\* the event loop runs a handler whose event has come, and a timer that is
\* armed fires; an await goes on once its promise is settled
HarnessSpec ==
    /\ HarnessInit
    /\ [][HarnessNext]_vars
    /\ WF_vars(OnData) /\ WF_vars(OnExit) /\ WF_vars(OnError)
    /\ WF_vars(OnTimeout) /\ WF_vars(AwaitInfo)

CaseSettled == harness.outcome # "running"
ChildStopped == harness.childState # "running" \/ "SIGKILL" \in harness.signals

\* how the info promise was settled agrees with what has happened
SettledByItsCause ==
    /\ harness.infoPromise.by \in {"none", "info", "exit", "error", "timeout"}
    /\ harness.infoPromise.state = "pending" <=> harness.infoPromise.by = "none"
    /\ harness.infoPromise.state = "fulfilled" <=> harness.infoPromise.by = "info"
    /\ harness.infoPromise.by = "info" => harness.infoPromise.line = 1
    /\ harness.infoPromise.by = "exit" => harness.childState \in {"exited", "killed"}
    /\ harness.infoPromise.by = "error" => harness.childState = "none"
    /\ harness.infoPromise.by = "timeout" => "SIGKILL" \in harness.signals

\* a settled info promise stays as it is
SettledOnce ==
    harness.infoPromise.state # "pending"
       => harness'.infoPromise = harness.infoPromise

\* the info promise of a spawned child is settled in the end
InfoSettles ==
    harness.pc = "await" ~> harness.infoPromise.state # "pending"

\* C30 (as stated): a case that has settled after the child's info line was
\* received has stopped the child and asked for the local browser to be closed
\* or the Browserbase session to be released; and the info promise settles
\* exactly once, by the first info line, the child's exit, a spawn error or the
\* timeout, which kills the child.
C30_CleanupAlwaysRequested ==
    /\ [](/\ CaseSettled /\ harness.infoPromise.state = "fulfilled"
             => /\ harness.stopped /\ ChildStopped
                /\ harness.closeRequested \/ harness.releaseRequested
          /\ SettledByItsCause)
    /\ [][SettledOnce]_vars
    /\ InfoSettles

\* C30: a case that has settled after the child's info line was received has
\* stopped the child (it has exited or was sent SIGKILL), has asked for the
\* local browser to be closed if the info gave a connect url (LOCAL) and for
\* the Browserbase session to be released if it gave a session id
\* (BROWSERBASE), whether the assertion passed or threw; and the info promise
\* settles exactly once, by the first info line, the child's exit, a spawn
\* error or the timeout, which kills the child.
C30_CleanupOnceInfoReturned ==
    /\ [](/\ CaseSettled /\ harness.infoPromise.state = "fulfilled"
             => /\ harness.stopped /\ ChildStopped
                /\ harness.env = "LOCAL" /\ harness.connectURL
                      => harness.closeRequested
                /\ harness.env = "BROWSERBASE" /\ harness.sessionId
                      => harness.releaseRequested
          /\ SettledByItsCause)
    /\ [][SettledOnce]_vars
    /\ InfoSettles

\* the assertion threw, the child was still running and got SIGKILL, and the
\* local browser was asked to close; a second info line had come by then
C30_Witness ==
    /\ CaseSettled
    /\ harness.assertion = "threw"
    /\ harness.env = "LOCAL"
    /\ harness.closeRequested
    /\ harness.childState = "running"
    /\ "SIGKILL" \in harness.signals
    /\ harness.emitted = MaxInfoLines
    /\ harness.infoPromise = [state |-> "fulfilled", by |-> "info", line |-> 1]

\* the timer fired first: the child was killed, and the info line that came
\* later changed nothing
C30_WitnessTimeout ==
    /\ harness.infoPromise.by = "timeout"
    /\ harness.resolved
    /\ harness.outcome = "rejected"


====
